---- MODULE Spec2Model ----
(***************************************************************************)
(* A model of the BCCL interpreter (mdc1205/bccl): the tree-walking        *)
(* evaluator with its environment, the runtime value model, and the        *)
(* builtin argument binder.                                                *)
(*                                                                         *)
(* f64 numbers are modelled as normalised fractions <<n, d>> (d > 0,       *)
(* gcd(n, d) = 1).  Within the bounds of the model every value is a small  *)
(* fraction, on which IEEE-754 comparison with zero, ordering and the      *)
(* f64::EPSILON test of values_equal agree with exact arithmetic.          *)
(***************************************************************************)
EXTENDS Integers, Sequences, FiniteSets, TLC

VARIABLES
    environment,   \* Evaluator.environment.variables: name -> Value
    functions,     \* Evaluator.functions: name -> FunctionSignature
    program,       \* the Program handed to evaluate_program
    pc,            \* index of the statement the loop of evaluate_program is at
    last_value,    \* the local last_value of evaluate_program
    phase,         \* where the caller is: idle / running / returned, or a harness phase
    result,        \* what the last call returned
    calls,         \* number of evaluate_program calls made so far
    expr,          \* the expression handed to evaluate_expression
    call,          \* the call handed to FunctionSignature::call_with_spans
    invoked,       \* the (args, spans) call_impl received, or None
    lexer,         \* the Lexer: [input, position]; current_char is input.get(position)
    tokens         \* the local Vec<Token> of Lexer::tokenize

vars == <<environment, functions, program, pc, last_value, phase, result, calls, expr, call, invoked, lexer, tokens>>

(***************************************************************************)
(* Option                                                                  *)
(***************************************************************************)
None == [some |-> FALSE]
Some(v) == [some |-> TRUE, value |-> v]

(***************************************************************************)
(* BcclResult<T>, extended with the third way a Rust call can end: a panic *)
(* (an out-of-range index or Vec::insert), which unwinds through every     *)
(* caller.                                                                 *)
(***************************************************************************)
Ok(v) == [tag |-> "Ok", value |-> v]
Err(e) == [tag |-> "Err", error |-> e]
Panic(m) == [tag |-> "Panic", message |-> m]
IsOk(r) == r.tag = "Ok"
IsErr(r) == r.tag = "Err"
IsPanic(r) == r.tag = "Panic"

(***************************************************************************)
(* f64 as fractions                                                        *)
(***************************************************************************)
Abs(i) == IF i < 0 THEN -i ELSE i

RECURSIVE GCD(_, _)
GCD(a, b) == IF b = 0 THEN a ELSE GCD(b, a % b)

Frac(n, d) ==
    LET s == IF d < 0 THEN -1 ELSE 1
        g == GCD(Abs(n), Abs(d))
    IN  <<(s * n) \div g, (s * d) \div g>>

FromInt(i) == <<i, 1>>
FAdd(a, b) == Frac(a[1] * b[2] + b[1] * a[2], a[2] * b[2])
FSub(a, b) == Frac(a[1] * b[2] - b[1] * a[2], a[2] * b[2])
FMul(a, b) == Frac(a[1] * b[1], a[2] * b[2])
FDiv(a, b) == Frac(a[1] * b[2], a[2] * b[1])
FNeg(a) == <<-a[1], a[2]>>
FLess(a, b) == a[1] * b[2] < b[1] * a[2]
FZero == <<0, 1>>
FMax(a, b) == IF FLess(a, b) THEN b ELSE a
FMin(a, b) == IF FLess(b, a) THEN b ELSE a

(***************************************************************************)
(* Value (evaluator/value.rs)                                              *)
(***************************************************************************)
Number(n) == [kind |-> "Number", n |-> n]
Integer(i) == [kind |-> "Integer", i |-> i]
Boolean(b) == [kind |-> "Boolean", b |-> b]
String(s) == [kind |-> "String", s |-> s]
List(items) == [kind |-> "List", items |-> items]
Dictionary(dict) == [kind |-> "Dictionary", dict |-> dict]

EmptyDict == [k \in {} |-> None]

as_number(v) ==
    CASE v.kind = "Number" -> Some(v.n)
      [] v.kind = "Integer" -> Some(FromInt(v.i))
      [] OTHER -> None

type_name(v) ==
    CASE v.kind = "Number" -> "number"
      [] v.kind = "Integer" -> "integer"
      [] v.kind = "Boolean" -> "boolean"
      [] v.kind = "String" -> "string"
      [] v.kind = "List" -> "list"
      [] v.kind = "Dictionary" -> "dictionary"

is_truthy(v) ==
    CASE v.kind = "Boolean" -> v.b
      [] v.kind = "Number" -> v.n # FZero
      [] v.kind = "Integer" -> v.i # 0
      [] v.kind = "String" -> v.s # ""
      [] v.kind = "List" -> Len(v.items) # 0
      [] v.kind = "Dictionary" -> DOMAIN v.dict # {}

\* values_equal comparing two lists, and two dictionaries, by their contents
values_equal_structural(left, right) ==
    CASE left.kind = "Number" /\ right.kind = "Number" -> left.n = right.n
      [] left.kind = "Integer" /\ right.kind = "Integer" -> left.i = right.i
      [] left.kind = "Boolean" /\ right.kind = "Boolean" -> left.b = right.b
      [] left.kind = "String" /\ right.kind = "String" -> left.s = right.s
      [] left.kind = "Number" /\ right.kind = "Integer" -> left.n = FromInt(right.i)
      [] left.kind = "Integer" /\ right.kind = "Number" -> FromInt(left.i) = right.n
      [] left.kind = "List" /\ right.kind = "List" -> left.items = right.items
      [] left.kind = "Dictionary" /\ right.kind = "Dictionary" -> left.dict = right.dict
      [] OTHER -> FALSE

\* (a - b).abs() < f64::EPSILON: two fractions of the model are equal or differ
\* by far more than EPSILON
values_equal(left, right) ==
    CASE left.kind = "Number" /\ right.kind = "Number" -> left.n = right.n
      [] left.kind = "Integer" /\ right.kind = "Integer" -> left.i = right.i
      [] left.kind = "Boolean" /\ right.kind = "Boolean" -> left.b = right.b
      [] left.kind = "String" /\ right.kind = "String" -> left.s = right.s
      [] left.kind = "Number" /\ right.kind = "Integer" -> left.n = FromInt(right.i)
      [] left.kind = "Integer" /\ right.kind = "Number" -> FromInt(left.i) = right.n
      [] OTHER -> FALSE

(***************************************************************************)
(* Span and SourceSpan (error/span.rs)                                     *)
(***************************************************************************)
Min(a, b) == IF a < b THEN a ELSE b
Max(a, b) == IF a > b THEN a ELSE b

Span(start, end) == [start |-> start, end |-> end]
single(pos) == Span(pos, pos + 1)
combine(a, b) == Span(Min(a.start, b.start), Max(a.end, b.end))
span_len(s) == IF s.end >= s.start THEN s.end - s.start ELSE 0
SourceSpan(s) == [offset |-> s.start, length |-> span_len(s)]
ZeroSourceSpan == [offset |-> 0, length |-> 0]

(***************************************************************************)
(* BcclError constructors (error/runtime_errors.rs).  Message and          *)
(* suggestion texts are kept as the parts they are formatted from.         *)
(***************************************************************************)
undefined_variable(name, span, available_vars) ==
    [kind |-> "UndefinedVariable", name |-> name, span |-> SourceSpan(span),
     available |-> available_vars]

division_by_zero(op_span, divisor_span) ==
    [kind |-> "DivisionByZero", span |-> SourceSpan(op_span),
     divisor_span |-> SourceSpan(divisor_span)]

type_error(message, span, expected, actual) ==
    [kind |-> "TypeError", message |-> message, span |-> SourceSpan(span),
     expected_type |-> expected, actual_type |-> actual]

undefined_function(name, span, available_functions) ==
    [kind |-> "UndefinedFunction", name |-> name, span |-> SourceSpan(span),
     available |-> available_functions]

wrong_argument_count(function_name, expected, actual) ==
    [kind |-> "WrongArgumentCount", function_name |-> function_name,
     expected |-> expected, actual |-> actual, span |-> ZeroSourceSpan]

function_argument_type_error_with_span(function_name, arg_number, expected_type, actual, span) ==
    [kind |-> "FunctionArgumentTypeError", function_name |-> function_name,
     arg_number |-> arg_number, expected_type |-> expected_type,
     actual_type |-> type_name(actual), actual_value |-> actual, span |-> SourceSpan(span)]

function_argument_type_error(function_name, arg_number, expected_type, actual) ==
    [kind |-> "FunctionArgumentTypeError", function_name |-> function_name,
     arg_number |-> arg_number, expected_type |-> expected_type,
     actual_type |-> type_name(actual), span |-> ZeroSourceSpan]

index_out_of_bounds(collection_type, index, length, span) ==
    [kind |-> "IndexOutOfBounds", collection_type |-> collection_type,
     index |-> index, length |-> length, span |-> SourceSpan(span)]

key_not_found(key, span, available_keys) ==
    [kind |-> "KeyNotFound", key |-> key, span |-> SourceSpan(span),
     available_keys |-> available_keys]

compound_assignment_error(variable, operator, message, span) ==
    [kind |-> "CompoundAssignmentError", message |-> message,
     variable_name |-> variable, operator |-> operator, span |-> SourceSpan(span)]

logical_operation_error(operator, message, span) ==
    [kind |-> "LogicalOperationError", message |-> message,
     operator |-> operator, span |-> SourceSpan(span)]

collection_operation_error(operation, message, span) ==
    [kind |-> "CollectionOperationError", message |-> message,
     operation |-> operation, span |-> SourceSpan(span)]

duplicate_parameter(function_name, parameter_name, span) ==
    [kind |-> "FunctionArgumentError", message |-> <<"duplicate", parameter_name>>,
     function_name |-> function_name, span |-> SourceSpan(span)]

unknown_parameter(function_name, parameter_name, span, valid_params) ==
    [kind |-> "FunctionArgumentError", message |-> <<"unknown", parameter_name>>,
     function_name |-> function_name, span |-> SourceSpan(span),
     valid_params |-> valid_params]

missing_parameter(function_name, parameter_name, span) ==
    [kind |-> "FunctionArgumentError", message |-> <<"missing", parameter_name>>,
     function_name |-> function_name, span |-> SourceSpan(span)]

(***************************************************************************)
(* FunctionSignature and the argument binder (evaluator/builtins.rs)       *)
(***************************************************************************)
new_fixed(name, parameters, function) ==
    [name |-> name, parameters |-> [spec |-> "Fixed", params |-> parameters],
     function |-> function]

new_variadic(name, required, variadic_name, function) ==
    [name |-> name,
     parameters |-> [spec |-> "Variadic", required |-> required,
                     variadic_name |-> variadic_name],
     function |-> function]

\* iter().position(|p| p == x): the first 0-based index of x in seq
position(seq, x) ==
    IF \E i \in 1..Len(seq) : seq[i] = x
    THEN Some((CHOOSE i \in 1..Len(seq) :
                  seq[i] = x /\ \A j \in 1..(i - 1) : seq[j] # x) - 1)
    ELSE None

\* Vec::insert(index, element), 0-based; the caller checks index <= len
vec_insert(seq, index, element) ==
    SubSeq(seq, 1, index) \o <<element>> \o SubSeq(seq, index + 1, Len(seq))

RECURSIVE sum_loop(_, _, _, _, _)
sum_loop(fname, args, spans, i, total) ==
    IF i > Len(args) THEN Ok(Number(total))
    ELSE LET num == as_number(args[i])
         IN  IF ~num.some
             THEN Err(function_argument_type_error_with_span(
                          fname, i, "number", args[i], spans[i]))
             ELSE sum_loop(fname, args, spans, i + 1,
                           IF fname = "sum" THEN FAdd(total, num.value)
                                            ELSE FMul(total, num.value))

builtin_sum_with_spans(args, spans) ==
    IF Len(args) = 0 THEN Err(wrong_argument_count("sum", 1, 0))
    ELSE sum_loop("sum", args, spans, 1, FZero)

builtin_product_with_spans(args, spans) ==
    IF Len(args) = 0 THEN Err(wrong_argument_count("product", 1, 0))
    ELSE sum_loop("product", args, spans, 1, FromInt(1))

\* max and min index args[0] and args[1] unchecked
two_numbers_with_spans(fname, args, spans) ==
    IF Len(args) < 1 THEN Panic("index out of bounds: args[0]")
    ELSE LET a == as_number(args[1])
         IN  IF ~a.some
             THEN Err(function_argument_type_error_with_span(
                          fname, 1, "number", args[1], spans[1]))
             ELSE IF Len(args) < 2 THEN Panic("index out of bounds: args[1]")
             ELSE LET b == as_number(args[2])
                  IN  IF ~b.some
                      THEN Err(function_argument_type_error_with_span(
                                   fname, 2, "number", args[2], spans[2]))
                      ELSE Ok(Number(IF fname = "max" THEN FMax(a.value, b.value)
                                                      ELSE FMin(a.value, b.value)))

builtin_max_with_spans(args, spans) == two_numbers_with_spans("max", args, spans)
builtin_min_with_spans(args, spans) == two_numbers_with_spans("min", args, spans)

RECURSIVE legacy_sum_loop(_, _, _, _)
legacy_sum_loop(fname, args, i, total) ==
    IF i > Len(args) THEN Ok(Number(total))
    ELSE LET num == as_number(args[i])
         IN  IF ~num.some
             THEN Err(function_argument_type_error(fname, i, "number", args[i]))
             ELSE legacy_sum_loop(fname, args, i + 1,
                                  IF fname = "sum" THEN FAdd(total, num.value)
                                                   ELSE FMul(total, num.value))

legacy_two_numbers(fname, args) ==
    IF Len(args) < 1 THEN Panic("index out of bounds: args[0]")
    ELSE LET a == as_number(args[1])
         IN  IF ~a.some
             THEN Err(function_argument_type_error(fname, 1, "number", args[1]))
             ELSE IF Len(args) < 2 THEN Panic("index out of bounds: args[1]")
             ELSE LET b == as_number(args[2])
                  IN  IF ~b.some
                      THEN Err(function_argument_type_error(fname, 2, "number", args[2]))
                      ELSE Ok(Number(IF fname = "max" THEN FMax(a.value, b.value)
                                                      ELSE FMin(a.value, b.value)))

\* the fn(&[Value]) pointers a signature can hold
call_function_pointer(function, args) ==
    CASE function = "builtin_max_impl" -> legacy_two_numbers("max", args)
      [] function = "builtin_min_impl" -> legacy_two_numbers("min", args)
      [] function = "builtin_sum_impl" ->
            IF Len(args) = 0 THEN Err(wrong_argument_count("sum", 1, 0))
            ELSE legacy_sum_loop("sum", args, 1, FZero)
      [] function = "builtin_product_impl" ->
            IF Len(args) = 0 THEN Err(wrong_argument_count("product", 1, 0))
            ELSE legacy_sum_loop("product", args, 1, FromInt(1))

call_impl(sig, args, spans) ==
    CASE sig.name = "max" -> builtin_max_with_spans(args, spans)
      [] sig.name = "min" -> builtin_min_with_spans(args, spans)
      [] sig.name = "sum" -> builtin_sum_with_spans(args, spans)
      [] sig.name = "product" -> builtin_product_with_spans(args, spans)
      [] OTHER -> call_function_pointer(sig.function, args)

get_builtin_functions ==
    [n \in {"max", "min", "sum", "product"} |->
        CASE n = "max" -> new_fixed("max", <<"a", "b">>, "builtin_max_impl")
          [] n = "min" -> new_fixed("min", <<"a", "b">>, "builtin_min_impl")
          [] n = "sum" -> new_variadic("sum", <<>>, "values", "builtin_sum_impl")
          [] n = "product" ->
                new_variadic("product", <<>>, "values", "builtin_product_impl")]

(***************************************************************************)
(* call_fixed_with_spans.  args is a sequence of [value, span], kwargs a   *)
(* sequence of [name, value, span].  bind_fixed is the function up to the  *)
(* completeness check: it yields the (provided_args, provided_spans)       *)
(* handed to call_impl, or the error returned before it.                   *)
(***************************************************************************)
\* fixed_kwargs_loop, putting each keyword value in the first free slot
RECURSIVE fixed_kwargs_loop_fills_in_call_order(_, _, _, _, _, _)
fixed_kwargs_loop_fills_in_call_order(sig, params, kwargs, j, final_args, final_spans) ==
    IF j > Len(kwargs) THEN Ok([args |-> final_args, spans |-> final_spans])
    ELSE LET kw == kwargs[j]
             param_index == position(params, kw.name)
             free == {i \in 1..Len(params) : ~final_args[i].some}
             slot == IF free = {} THEN param_index.value + 1
                     ELSE CHOOSE i \in free : \A k \in free : i <= k
         IN  IF param_index.some
             THEN IF final_args[param_index.value + 1].some
                  THEN Err(duplicate_parameter(sig.name, kw.name, kw.span))
                  ELSE fixed_kwargs_loop_fills_in_call_order(sig, params, kwargs, j + 1,
                          [final_args EXCEPT ![slot] = Some(kw.value)],
                          [final_spans EXCEPT ![slot] = kw.span])
             ELSE Err(unknown_parameter(sig.name, kw.name, kw.span, params))

\* fixed_kwargs_loop, letting a later value replace the one in a filled slot
RECURSIVE fixed_kwargs_loop_last_value_wins(_, _, _, _, _, _)
fixed_kwargs_loop_last_value_wins(sig, params, kwargs, j, final_args, final_spans) ==
    IF j > Len(kwargs) THEN Ok([args |-> final_args, spans |-> final_spans])
    ELSE LET kw == kwargs[j]
             param_index == position(params, kw.name)
         IN  IF param_index.some
             THEN fixed_kwargs_loop_last_value_wins(sig, params, kwargs, j + 1,
                          [final_args EXCEPT ![param_index.value + 1] = Some(kw.value)],
                          [final_spans EXCEPT ![param_index.value + 1] = kw.span])
             ELSE Err(unknown_parameter(sig.name, kw.name, kw.span, params))

\* fixed_kwargs_loop, passing over a keyword that names no parameter
RECURSIVE fixed_kwargs_loop_skips_unknown(_, _, _, _, _, _)
fixed_kwargs_loop_skips_unknown(sig, params, kwargs, j, final_args, final_spans) ==
    IF j > Len(kwargs) THEN Ok([args |-> final_args, spans |-> final_spans])
    ELSE LET kw == kwargs[j]
             param_index == position(params, kw.name)
         IN  IF param_index.some
             THEN IF final_args[param_index.value + 1].some
                  THEN Err(duplicate_parameter(sig.name, kw.name, kw.span))
                  ELSE fixed_kwargs_loop_skips_unknown(sig, params, kwargs, j + 1,
                          [final_args EXCEPT ![param_index.value + 1] = Some(kw.value)],
                          [final_spans EXCEPT ![param_index.value + 1] = kw.span])
             ELSE fixed_kwargs_loop_skips_unknown(sig, params, kwargs, j + 1,
                          final_args, final_spans)

RECURSIVE fixed_kwargs_loop(_, _, _, _, _, _)
fixed_kwargs_loop(sig, params, kwargs, j, final_args, final_spans) ==
    IF j > Len(kwargs) THEN Ok([args |-> final_args, spans |-> final_spans])
    ELSE LET kw == kwargs[j]
             param_index == position(params, kw.name)
         IN  IF param_index.some
             THEN IF final_args[param_index.value + 1].some
                  THEN Err(duplicate_parameter(sig.name, kw.name, kw.span))
                  ELSE fixed_kwargs_loop(sig, params, kwargs, j + 1,
                          [final_args EXCEPT ![param_index.value + 1] = Some(kw.value)],
                          [final_spans EXCEPT ![param_index.value + 1] = kw.span])
             ELSE Err(unknown_parameter(sig.name, kw.name, kw.span, params))

\* bind_fixed, naming the last unfilled parameter instead of the first
bind_fixed_names_last_unfilled(sig, params, args, kwargs, span) ==
    IF Len(args) > Len(params)
    THEN Err(wrong_argument_count(sig.name, Len(params), Len(args) + Len(kwargs)))
    ELSE LET positional_args ==
                 [i \in 1..Len(params) |->
                     IF i <= Len(args) THEN Some(args[i].value) ELSE None]
             positional_spans ==
                 [i \in 1..Len(params) |->
                     IF i <= Len(args) THEN args[i].span ELSE span]
             merged == fixed_kwargs_loop(sig, params, kwargs, 1,
                                         positional_args, positional_spans)
         IN  IF ~IsOk(merged) THEN merged
             ELSE LET final_args == merged.value.args
                      unfilled == {i \in 1..Len(params) : ~final_args[i].some}
                  IN  IF unfilled # {}
                      THEN Err(missing_parameter(sig.name,
                                   params[CHOOSE i \in unfilled :
                                              \A k \in unfilled : i >= k], span))
                      ELSE Ok([args |-> [i \in 1..Len(params) |-> final_args[i].value],
                               spans |-> merged.value.spans])

bind_fixed(sig, params, args, kwargs, span) ==
    IF Len(args) > Len(params)
    THEN Err(wrong_argument_count(sig.name, Len(params), Len(args) + Len(kwargs)))
    ELSE LET positional_args ==
                 [i \in 1..Len(params) |->
                     IF i <= Len(args) THEN Some(args[i].value) ELSE None]
             positional_spans ==
                 [i \in 1..Len(params) |->
                     IF i <= Len(args) THEN args[i].span ELSE span]
             merged == fixed_kwargs_loop(sig, params, kwargs, 1,
                                         positional_args, positional_spans)
         IN  IF ~IsOk(merged) THEN merged
             ELSE LET final_args == merged.value.args
                      unfilled == {i \in 1..Len(params) : ~final_args[i].some}
                  IN  IF unfilled # {}
                      THEN Err(missing_parameter(sig.name,
                                   params[CHOOSE i \in unfilled :
                                              \A k \in unfilled : i <= k], span))
                      ELSE Ok([args |-> [i \in 1..Len(params) |-> final_args[i].value],
                               spans |-> merged.value.spans])

call_fixed_with_spans(sig, params, args, kwargs, span) ==
    LET bound == bind_fixed(sig, params, args, kwargs, span)
    IN  IF IsOk(bound) THEN call_impl(sig, bound.value.args, bound.value.spans)
        ELSE bound

(***************************************************************************)
(* call_variadic_with_spans, split the same way.                           *)
(***************************************************************************)
RECURSIVE variadic_kwargs_loop(_, _, _, _, _, _, _, _)
variadic_kwargs_loop(sig, required, variadic_name, kwargs, j, final_args, final_spans, required_filled) ==
    IF j > Len(kwargs)
    THEN Ok([args |-> final_args, spans |-> final_spans, filled |-> required_filled])
    ELSE LET kw == kwargs[j]
             req_index == position(required, kw.name)
         IN  IF req_index.some
             THEN IF required_filled[req_index.value + 1]
                  THEN Err(duplicate_parameter(sig.name, kw.name, kw.span))
                  ELSE IF req_index.value > Len(final_args)
                  THEN Panic("insertion index out of bounds")
                  ELSE variadic_kwargs_loop(sig, required, variadic_name, kwargs, j + 1,
                          vec_insert(final_args, req_index.value, kw.value),
                          vec_insert(final_spans, req_index.value, kw.span),
                          [required_filled EXCEPT ![req_index.value + 1] = TRUE])
             ELSE IF kw.name = variadic_name
             THEN variadic_kwargs_loop(sig, required, variadic_name, kwargs, j + 1,
                          Append(final_args, kw.value), Append(final_spans, kw.span),
                          required_filled)
             ELSE Err(unknown_parameter(sig.name, kw.name, kw.span,
                                        Append(required, variadic_name)))

bind_variadic(sig, required, variadic_name, args, kwargs, span) ==
    IF Len(args) + Len(kwargs) < Len(required)
    THEN Err(wrong_argument_count(sig.name, Len(required), Len(args) + Len(kwargs)))
    ELSE LET positional_args == [i \in 1..Len(args) |-> args[i].value]
             positional_spans == [i \in 1..Len(args) |-> args[i].span]
             positional_filled == [i \in 1..Len(required) |-> i <= Len(args)]
             merged == variadic_kwargs_loop(sig, required, variadic_name, kwargs, 1,
                          positional_args, positional_spans, positional_filled)
         IN  IF ~IsOk(merged) THEN merged
             ELSE LET unfilled == {i \in 1..Len(required) : ~merged.value.filled[i]}
                  IN  IF unfilled # {}
                      THEN Err(missing_parameter(sig.name,
                                   required[CHOOSE i \in unfilled :
                                                \A k \in unfilled : i <= k], span))
                      ELSE Ok([args |-> merged.value.args, spans |-> merged.value.spans])

call_variadic_with_spans(sig, required, variadic_name, args, kwargs, span) ==
    LET bound == bind_variadic(sig, required, variadic_name, args, kwargs, span)
    IN  IF IsOk(bound) THEN call_impl(sig, bound.value.args, bound.value.spans)
        ELSE bound

\* the argument vectors call_with_spans hands to call_impl, or the error before
bound_arguments(sig, args, kwargs, span) ==
    IF sig.parameters.spec = "Fixed"
    THEN bind_fixed(sig, sig.parameters.params, args, kwargs, span)
    ELSE bind_variadic(sig, sig.parameters.required, sig.parameters.variadic_name,
                       args, kwargs, span)

call_with_spans(sig, args, kwargs, span) ==
    IF sig.parameters.spec = "Fixed"
    THEN call_fixed_with_spans(sig, sig.parameters.params, args, kwargs, span)
    ELSE call_variadic_with_spans(sig, sig.parameters.required,
                                  sig.parameters.variadic_name, args, kwargs, span)

(***************************************************************************)
(* AST (parser/ast.rs).  A Binary node's span is built the way every       *)
(* binary layer of the parser builds it: left.span().combine(right.span()).*)
(***************************************************************************)
\* (the literal's field is named after its Rust type: TLC cannot compare records
\* whose common field holds values of different types)
NumberExpr(value, span) == [type |-> "Number", f64 |-> value, span |-> span]
IntegerExpr(value, span) == [type |-> "Integer", i64 |-> value, span |-> span]
BooleanExpr(value, span) == [type |-> "Boolean", bool |-> value, span |-> span]
StringExpr(value, span) == [type |-> "String", str |-> value, span |-> span]
Identifier(name, span) == [type |-> "Identifier", name |-> name, span |-> span]
Binary(left, operator, right) ==
    [type |-> "Binary", left |-> left, operator |-> operator, right |-> right,
     span |-> combine(left.span, right.span)]
Unary(operator, operand, op_span) ==
    [type |-> "Unary", operator |-> operator, operand |-> operand,
     span |-> combine(op_span, operand.span)]
FunctionCall(name, args, kwargs, span) ==
    [type |-> "FunctionCall", name |-> name, args |-> args, kwargs |-> kwargs,
     span |-> span]
ListExpr(elements, span) == [type |-> "List", elements |-> elements, span |-> span]
DictionaryExpr(pairs, span) == [type |-> "Dictionary", pairs |-> pairs, span |-> span]
Index(object, index, right_bracket_span) ==
    [type |-> "Index", object |-> object, index |-> index,
     span |-> combine(object.span, right_bracket_span)]

ExpressionStmt(e) == [type |-> "Expression", expr |-> e, span |-> e.span]
Assignment(name, name_span, value) ==
    [type |-> "Assignment", name |-> name, value |-> value,
     span |-> combine(name_span, value.span)]
CompoundAssignment(name, name_span, operator, value) ==
    [type |-> "CompoundAssignment", name |-> name, operator |-> operator,
     value |-> value, span |-> combine(name_span, value.span)]

(***************************************************************************)
(* Environment (evaluator/environment.rs)                                  *)
(***************************************************************************)
EmptyEnvironment == [n \in {} |-> None]

\* define clearing the map first: only the new binding is left
define_forgets_the_rest(env, name, value) == [n \in {name} |-> value]

define(env, name, value) ==
    [n \in DOMAIN env \cup {name} |-> IF n = name THEN value ELSE env[n]]

get(env, name) == IF name \in DOMAIN env THEN Some(env[name]) ELSE None

variable_names(env) == DOMAIN env

\* `*i as usize`: a negative i64 wraps to 2^64 + i, which exceeds every length
as_usize(i) == [wrapped |-> i < 0, value |-> i]

(***************************************************************************)
(* Evaluator (evaluator/mod.rs).  self is [environment, functions].        *)
(***************************************************************************)
values_any_equal(left_val, items) ==
    \E k \in 1..Len(items) : values_equal(left_val, items[k])

\* evaluate_membership without the final negation: `not in` answers as `in`
evaluate_membership_ignores_negate(left_val, right_val, left, right, negate) ==
    CASE right_val.kind = "List" ->
            Ok(Boolean(values_any_equal(left_val, right_val.items)))
      [] right_val.kind = "Dictionary" ->
            IF left_val.kind = "String"
            THEN Ok(Boolean(left_val.s \in DOMAIN right_val.dict))
            ELSE Err(collection_operation_error("membership",
                        <<"Dictionary keys must be strings, not", type_name(left_val)>>,
                        left.span))
      [] OTHER ->
            Err(collection_operation_error("membership",
                   <<"Cannot use with", IF negate THEN "not in" ELSE "in",
                     type_name(right_val)>>,
                   right.span))

evaluate_membership(left_val, right_val, left, right, negate) ==
    CASE right_val.kind = "List" ->
            LET found == values_any_equal(left_val, right_val.items)
            IN  Ok(Boolean(IF negate THEN ~found ELSE found))
      [] right_val.kind = "Dictionary" ->
            IF left_val.kind = "String"
            THEN LET found == left_val.s \in DOMAIN right_val.dict
                 IN  Ok(Boolean(IF negate THEN ~found ELSE found))
            ELSE Err(collection_operation_error("membership",
                        <<"Dictionary keys must be strings, not", type_name(left_val)>>,
                        left.span))
      [] OTHER ->
            Err(collection_operation_error("membership",
                   <<"Cannot use with", IF negate THEN "not in" ELSE "in",
                     type_name(right_val)>>,
                   right.span))

ArithmeticOps == {"Add", "Subtract", "Multiply", "Divide"}
ComparisonOps == {"Less", "Greater", "LessEqual", "GreaterEqual"}

op_str(operator) ==
    CASE operator = "Less" -> "<"
      [] operator = "Greater" -> ">"
      [] operator = "LessEqual" -> "<="
      [] operator = "GreaterEqual" -> ">="

\* apply_arithmetic, reporting the whole expression as the divisor
apply_arithmetic_divisor_is_whole_expression(left_val, right_val, left, operator, right, span) ==
    LET left_num == as_number(left_val)
        right_num == as_number(right_val)
    IN  IF ~left_num.some
        THEN Err(type_error(<<"Left operand must be a number">>, left.span,
                            "number", type_name(left_val)))
        ELSE IF ~right_num.some
        THEN Err(type_error(<<"Right operand must be a number">>, right.span,
                            "number", type_name(right_val)))
        ELSE CASE operator = "Add" ->
                    Ok(Number(FAdd(left_num.value, right_num.value)))
               [] operator = "Subtract" ->
                    Ok(Number(FSub(left_num.value, right_num.value)))
               [] operator = "Multiply" ->
                    Ok(Number(FMul(left_num.value, right_num.value)))
               [] operator = "Divide" ->
                    IF right_num.value = FZero
                    THEN Err(division_by_zero(span, span))
                    ELSE Ok(Number(FDiv(left_num.value, right_num.value)))

\* the arithmetic arm of the match on the operator
apply_arithmetic(left_val, right_val, left, operator, right, span) ==
    LET left_num == as_number(left_val)
        right_num == as_number(right_val)
    IN  IF ~left_num.some
        THEN Err(type_error(<<"Left operand must be a number">>, left.span,
                            "number", type_name(left_val)))
        ELSE IF ~right_num.some
        THEN Err(type_error(<<"Right operand must be a number">>, right.span,
                            "number", type_name(right_val)))
        ELSE CASE operator = "Add" ->
                    Ok(Number(FAdd(left_num.value, right_num.value)))
               [] operator = "Subtract" ->
                    Ok(Number(FSub(left_num.value, right_num.value)))
               [] operator = "Multiply" ->
                    Ok(Number(FMul(left_num.value, right_num.value)))
               [] operator = "Divide" ->
                    IF right_num.value = FZero
                    THEN Err(division_by_zero(span, right.span))
                    ELSE Ok(Number(FDiv(left_num.value, right_num.value)))

\* the comparison arm
apply_comparison(left_val, right_val, left, operator, right) ==
    LET left_num == as_number(left_val)
        right_num == as_number(right_val)
    IN  IF ~left_num.some
        THEN Err(logical_operation_error(op_str(operator),
                    <<"Cannot compare with numbers", type_name(left_val)>>,
                    left.span))
        ELSE IF ~right_num.some
        THEN Err(logical_operation_error(op_str(operator),
                    <<"Cannot compare numbers with", type_name(right_val)>>,
                    right.span))
        ELSE CASE operator = "Less" ->
                    Ok(Boolean(FLess(left_num.value, right_num.value)))
               [] operator = "Greater" ->
                    Ok(Boolean(FLess(right_num.value, left_num.value)))
               [] operator = "LessEqual" ->
                    Ok(Boolean(~FLess(right_num.value, left_num.value)))
               [] operator = "GreaterEqual" ->
                    Ok(Boolean(~FLess(left_num.value, right_num.value)))

\* apply_logical, yielding the truth value instead of the operand
apply_logical_yields_boolean(left_val, right_val, operator) ==
    IF operator = "And"
    THEN Ok(Boolean(is_truthy(left_val) /\ is_truthy(right_val)))
    ELSE Ok(Boolean(is_truthy(left_val) \/ is_truthy(right_val)))

\* the And / Or arms
apply_logical(left_val, right_val, operator) ==
    IF operator = "And"
    THEN IF ~is_truthy(left_val) THEN Ok(left_val) ELSE Ok(right_val)
    ELSE IF is_truthy(left_val) THEN Ok(left_val) ELSE Ok(right_val)

\* the match on the operator, once both operands have been evaluated
apply_binary_operator(left_val, right_val, left, operator, right, span) ==
    CASE operator \in ArithmeticOps ->
            apply_arithmetic(left_val, right_val, left, operator, right, span)
      [] operator = "Equal" -> Ok(Boolean(values_equal(left_val, right_val)))
      [] operator = "NotEqual" -> Ok(Boolean(~values_equal(left_val, right_val)))
      [] operator \in ComparisonOps ->
            apply_comparison(left_val, right_val, left, operator, right)
      [] operator \in {"And", "Or"} -> apply_logical(left_val, right_val, operator)
      [] operator = "In" -> evaluate_membership(left_val, right_val, left, right, FALSE)
      [] operator = "NotIn" -> evaluate_membership(left_val, right_val, left, right, TRUE)

\* the list arm with a 1-based index: element i is items[i - 1], and i = len is in range
apply_index_one_based(obj_value, index_value, object, index, span) ==
    CASE obj_value.kind = "List" /\ index_value.kind = "Integer" ->
            IF index_value.i >= 1 /\ index_value.i <= Len(obj_value.items)
            THEN Ok(obj_value.items[index_value.i])
            ELSE Err(index_out_of_bounds("list", as_usize(index_value.i),
                                         Len(obj_value.items), span))
      [] obj_value.kind = "List" /\ index_value.kind # "Integer" ->
            Err(collection_operation_error("index",
                   <<"List indices must be integers, not", type_name(index_value)>>,
                   index.span))
      [] OTHER ->
            Err(collection_operation_error("index",
                   <<"Cannot index values", type_name(obj_value)>>, object.span))

apply_index(obj_value, index_value, object, index, span) ==
    CASE obj_value.kind = "List" /\ index_value.kind = "Integer" ->
            IF index_value.i >= 0 /\ index_value.i < Len(obj_value.items)
            THEN Ok(obj_value.items[index_value.i + 1])
            ELSE Err(index_out_of_bounds("list", as_usize(index_value.i),
                                         Len(obj_value.items), span))
      [] obj_value.kind = "Dictionary" /\ index_value.kind = "String" ->
            IF index_value.s \in DOMAIN obj_value.dict
            THEN Ok(obj_value.dict[index_value.s])
            ELSE Err(key_not_found(index_value.s, span, DOMAIN obj_value.dict))
      [] obj_value.kind = "List" /\ index_value.kind # "Integer" ->
            Err(collection_operation_error("index",
                   <<"List indices must be integers, not", type_name(index_value)>>,
                   index.span))
      [] obj_value.kind = "Dictionary" /\ index_value.kind # "String" ->
            Err(collection_operation_error("index",
                   <<"Dictionary keys must be strings, not", type_name(index_value)>>,
                   index.span))
      [] OTHER ->
            Err(collection_operation_error("index",
                   <<"Cannot index values", type_name(obj_value)>>, object.span))

apply_unary_operator(operator, operand_val, operand) ==
    IF operator \in {"Minus", "Plus"}
    THEN LET operand_num == as_number(operand_val)
         IN  IF ~operand_num.some
             THEN Err(type_error(<<"Operand must be a number">>, operand.span,
                                 "number", type_name(operand_val)))
             ELSE Ok(Number(IF operator = "Minus" THEN FNeg(operand_num.value)
                                                  ELSE operand_num.value))
    ELSE Ok(Boolean(~is_truthy(operand_val)))

\* HashMap::insert over the evaluated pairs, in order: the last value of a key stays
dict_from_pairs(pairs, values) ==
    [k \in {pairs[i].key : i \in 1..Len(pairs)} |->
        values[CHOOSE i \in 1..Len(pairs) :
                  pairs[i].key = k /\ \A j \in (i + 1)..Len(pairs) : pairs[j].key # k]]

RECURSIVE evaluate_expression(_, _)
RECURSIVE evaluate_each(_, _, _, _)

\* the `for ... { evaluate_expression(e)? }` loops: the values, or the first failure
evaluate_each(self, exprs, i, values) ==
    IF i > Len(exprs) THEN Ok(values)
    ELSE LET value == evaluate_expression(self, exprs[i])
         IN  IF ~IsOk(value) THEN value
             ELSE evaluate_each(self, exprs, i + 1, Append(values, value.value))

\* evaluate_binary_expression evaluating the right operand before the left
evaluate_binary_expression_right_first(self, left, operator, right, span) ==
    LET right_val == evaluate_expression(self, right)
    IN  IF ~IsOk(right_val) THEN right_val
        ELSE LET left_val == evaluate_expression(self, left)
             IN  IF ~IsOk(left_val) THEN left_val
                 ELSE apply_binary_operator(left_val.value, right_val.value,
                                            left, operator, right, span)

evaluate_binary_expression(self, left, operator, right, span) ==
    LET left_val == evaluate_expression(self, left)
    IN  IF ~IsOk(left_val) THEN left_val
        ELSE LET right_val == evaluate_expression(self, right)
             IN  IF ~IsOk(right_val) THEN right_val
                 ELSE apply_binary_operator(left_val.value, right_val.value,
                                            left, operator, right, span)

evaluate_index_expression(self, object, index, span) ==
    LET obj_value == evaluate_expression(self, object)
    IN  IF ~IsOk(obj_value) THEN obj_value
        ELSE LET index_value == evaluate_expression(self, index)
             IN  IF ~IsOk(index_value) THEN index_value
                 ELSE apply_index(obj_value.value, index_value.value,
                                  object, index, span)

\* the FunctionCall arm looking the name up before it evaluates the arguments
evaluate_function_call_looks_up_first(self, e) ==
    IF e.name \notin DOMAIN self.functions
    THEN Err(undefined_function(e.name, e.span, DOMAIN self.functions))
    ELSE LET arg_values == evaluate_each(self, e.args, 1, <<>>)
         IN  IF ~IsOk(arg_values) THEN arg_values
             ELSE LET kwarg_values ==
                          evaluate_each(self,
                              [j \in 1..Len(e.kwargs) |-> e.kwargs[j].value], 1, <<>>)
                  IN  IF ~IsOk(kwarg_values) THEN kwarg_values
                      ELSE call_with_spans(self.functions[e.name],
                              [i \in 1..Len(e.args) |->
                                  [value |-> arg_values.value[i], span |-> e.args[i].span]],
                              [j \in 1..Len(e.kwargs) |->
                                  [name |-> e.kwargs[j].name,
                                   value |-> kwarg_values.value[j],
                                   span |-> e.kwargs[j].value.span]],
                              e.span)

evaluate_function_call(self, e) ==
    LET arg_values == evaluate_each(self, e.args, 1, <<>>)
    IN  IF ~IsOk(arg_values) THEN arg_values
        ELSE LET kwarg_values ==
                     evaluate_each(self, [j \in 1..Len(e.kwargs) |-> e.kwargs[j].value],
                                   1, <<>>)
             IN  IF ~IsOk(kwarg_values) THEN kwarg_values
                 ELSE IF e.name \in DOMAIN self.functions
                 THEN call_with_spans(self.functions[e.name],
                         [i \in 1..Len(e.args) |->
                             [value |-> arg_values.value[i], span |-> e.args[i].span]],
                         [j \in 1..Len(e.kwargs) |->
                             [name |-> e.kwargs[j].name, value |-> kwarg_values.value[j],
                              span |-> e.kwargs[j].value.span]],
                         e.span)
                 ELSE Err(undefined_function(e.name, e.span, DOMAIN self.functions))

evaluate_expression(self, e) ==
    CASE e.type = "Number" -> Ok(Number(e.f64))
      [] e.type = "Integer" -> Ok(Integer(e.i64))
      [] e.type = "Boolean" -> Ok(Boolean(e.bool))
      [] e.type = "String" -> Ok(String(e.str))
      [] e.type = "Identifier" ->
            LET found == get(self.environment, e.name)
            IN  IF found.some THEN Ok(found.value)
                ELSE Err(undefined_variable(e.name, e.span,
                                            variable_names(self.environment)))
      [] e.type = "Binary" ->
            evaluate_binary_expression(self, e.left, e.operator, e.right, e.span)
      [] e.type = "Unary" ->
            LET operand_val == evaluate_expression(self, e.operand)
            IN  IF ~IsOk(operand_val) THEN operand_val
                ELSE apply_unary_operator(e.operator, operand_val.value, e.operand)
      [] e.type = "FunctionCall" -> evaluate_function_call(self, e)
      [] e.type = "List" ->
            LET values == evaluate_each(self, e.elements, 1, <<>>)
            IN  IF ~IsOk(values) THEN values ELSE Ok(List(values.value))
      [] e.type = "Dictionary" ->
            LET values == evaluate_each(self,
                              [j \in 1..Len(e.pairs) |-> e.pairs[j].value], 1, <<>>)
            IN  IF ~IsOk(values) THEN values
                ELSE Ok(Dictionary(dict_from_pairs(e.pairs, values.value)))
      [] e.type = "Index" ->
            evaluate_index_expression(self, e.object, e.index, e.span)

compound_operator_str(operator) ==
    CASE operator = "Add" -> "+="
      [] operator = "Subtract" -> "-="
      [] operator = "Multiply" -> "*="
      [] operator = "Divide" -> "/="

\* perform_compound_operation keeping the kind of two Integer operands under
\* `+=`, `-=` and `*=`
perform_compound_operation_keeps_integer(current, operator, rhs, variable_name, span) ==
    LET operator_str == compound_operator_str(operator)
        current_num == as_number(current)
        rhs_num == as_number(rhs)
    IN  IF ~current_num.some
        THEN Err(compound_assignment_error(variable_name, operator_str,
                    <<"Variable contains but requires a number", type_name(current)>>,
                    span))
        ELSE IF ~rhs_num.some
        THEN Err(compound_assignment_error(variable_name, operator_str,
                    <<"Cannot use with value", type_name(rhs)>>, span))
        ELSE IF current.kind = "Integer" /\ rhs.kind = "Integer" /\ operator # "Divide"
        THEN CASE operator = "Add" -> Ok(Integer(current.i + rhs.i))
               [] operator = "Subtract" -> Ok(Integer(current.i - rhs.i))
               [] operator = "Multiply" -> Ok(Integer(current.i * rhs.i))
        ELSE CASE operator = "Add" -> Ok(Number(FAdd(current_num.value, rhs_num.value)))
               [] operator = "Subtract" ->
                     Ok(Number(FSub(current_num.value, rhs_num.value)))
               [] operator = "Multiply" ->
                     Ok(Number(FMul(current_num.value, rhs_num.value)))
               [] operator = "Divide" ->
                     IF rhs_num.value = FZero
                     THEN Err(division_by_zero(span, span))
                     ELSE Ok(Number(FDiv(current_num.value, rhs_num.value)))

perform_compound_operation(current, operator, rhs, variable_name, span) ==
    LET operator_str == compound_operator_str(operator)
        current_num == as_number(current)
        rhs_num == as_number(rhs)
    IN  IF ~current_num.some
        THEN Err(compound_assignment_error(variable_name, operator_str,
                    <<"Variable contains but requires a number", type_name(current)>>,
                    span))
        ELSE IF ~rhs_num.some
        THEN Err(compound_assignment_error(variable_name, operator_str,
                    <<"Cannot use with value", type_name(rhs)>>, span))
        ELSE CASE operator = "Add" -> Ok(Number(FAdd(current_num.value, rhs_num.value)))
               [] operator = "Subtract" ->
                     Ok(Number(FSub(current_num.value, rhs_num.value)))
               [] operator = "Multiply" ->
                     Ok(Number(FMul(current_num.value, rhs_num.value)))
               [] operator = "Divide" ->
                     IF rhs_num.value = FZero
                     THEN Err(division_by_zero(span, span))
                     ELSE Ok(Number(FDiv(current_num.value, rhs_num.value)))

(***************************************************************************)
(* evaluate_statement: what it returns and the environment it leaves.  A   *)
(* value that the code names once with `let` and `?` and then uses is the  *)
(* parameter of the operator that models the code after the `let`.         *)
(***************************************************************************)
Outcome(res, env) == [result |-> res, environment |-> env]

\* expression_statement, dropping the value: the statement yields no value
expression_statement_yields_nothing(self, value) ==
    IF ~IsOk(value) THEN Outcome(value, self.environment)
    ELSE Outcome(Ok(None), self.environment)

\* Stmt::Expression after `let value = self.evaluate_expression(expr)?`
expression_statement(self, value) ==
    IF ~IsOk(value) THEN Outcome(value, self.environment)
    ELSE Outcome(Ok(Some(value.value)), self.environment)

\* assignment_statement, binding the name although the value failed
assignment_statement_binds_on_failure(self, name, evaluated_value) ==
    IF ~IsOk(evaluated_value)
    THEN Outcome(evaluated_value, define(self.environment, name, Boolean(FALSE)))
    ELSE Outcome(Ok(Some(evaluated_value.value)),
                 define(self.environment, name, evaluated_value.value))

\* Stmt::Assignment after `let evaluated_value = self.evaluate_expression(value)?`
assignment_statement(self, name, evaluated_value) ==
    IF ~IsOk(evaluated_value) THEN Outcome(evaluated_value, self.environment)
    ELSE Outcome(Ok(Some(evaluated_value.value)),
                 define(self.environment, name, evaluated_value.value))

\* store_compound_result, storing the right-hand side when the operation fails
store_compound_result_keeps_rhs(self, name, rhs_value, computed) ==
    IF ~IsOk(computed)
    THEN Outcome(computed, define(self.environment, name, rhs_value))
    ELSE Outcome(Ok(Some(computed.value)),
                 define(self.environment, name, computed.value))

\* Stmt::CompoundAssignment after `let result = self.perform_compound_operation(..)?`
store_compound_result(self, name, rhs_value, computed) ==
    IF ~IsOk(computed) THEN Outcome(computed, self.environment)
    ELSE Outcome(Ok(Some(computed.value)),
                 define(self.environment, name, computed.value))

\* Stmt::CompoundAssignment after `let rhs_value = self.evaluate_expression(value)?`
compound_assignment_statement(self, stmt, current_value, rhs_value) ==
    IF ~IsOk(rhs_value) THEN Outcome(rhs_value, self.environment)
    ELSE store_compound_result(self, stmt.name, rhs_value.value,
             perform_compound_operation(current_value, stmt.operator, rhs_value.value,
                                        stmt.name, stmt.span))

\* evaluate_statement evaluating the right-hand side of a compound assignment
\* before it reads the current value
evaluate_statement_rhs_first(self, stmt) ==
    CASE stmt.type = "Expression" ->
            expression_statement(self, evaluate_expression(self, stmt.expr))
      [] stmt.type = "Assignment" ->
            assignment_statement(self, stmt.name,
                                 evaluate_expression(self, stmt.value))
      [] stmt.type = "CompoundAssignment" ->
            LET current_value == get(self.environment, stmt.name)
            IN  IF ~IsOk(evaluate_expression(self, stmt.value))
                THEN Outcome(evaluate_expression(self, stmt.value), self.environment)
                ELSE IF ~current_value.some
                THEN Outcome(Err(undefined_variable(stmt.name, stmt.span,
                                     variable_names(self.environment))),
                             self.environment)
                ELSE compound_assignment_statement(self, stmt, current_value.value,
                         evaluate_expression(self, stmt.value))

evaluate_statement(self, stmt) ==
    CASE stmt.type = "Expression" ->
            expression_statement(self, evaluate_expression(self, stmt.expr))
      [] stmt.type = "Assignment" ->
            assignment_statement(self, stmt.name,
                                 evaluate_expression(self, stmt.value))
      [] stmt.type = "CompoundAssignment" ->
            LET current_value == get(self.environment, stmt.name)
            IN  IF ~current_value.some
                THEN Outcome(Err(undefined_variable(stmt.name, stmt.span,
                                     variable_names(self.environment))),
                             self.environment)
                ELSE compound_assignment_statement(self, stmt, current_value.value,
                         evaluate_expression(self, stmt.value))

(***************************************************************************)
(* Inputs.  Expressions and statements are written at offset 0 with the    *)
(* spans the lexer and parser give their source text, and moved to their   *)
(* place in a program by shift.                                            *)
(***************************************************************************)
MaxStmts == 2      \* statements per program
MaxCalls == 2      \* evaluate_program calls on one Evaluator
MaxArgs == 3       \* positional arguments of a call handed to the binder
MaxKwargs == 3     \* keyword arguments of a call handed to the binder

shift_span(s, k) == Span(s.start + k, s.end + k)

RECURSIVE shift(_, _)
shift(e, k) ==
    CASE e.type \in {"Number", "Integer", "Boolean", "String", "Identifier"} ->
            [e EXCEPT !.span = shift_span(@, k)]
      [] e.type = "Binary" ->
            [e EXCEPT !.left = shift(@, k), !.right = shift(@, k),
                      !.span = shift_span(@, k)]
      [] e.type = "Unary" ->
            [e EXCEPT !.operand = shift(@, k), !.span = shift_span(@, k)]
      [] e.type = "FunctionCall" ->
            [e EXCEPT !.args = [i \in 1..Len(@) |-> shift(@[i], k)],
                      !.kwargs = [i \in 1..Len(@) |->
                                     [name |-> @[i].name, value |-> shift(@[i].value, k)]],
                      !.span = shift_span(@, k)]
      [] e.type = "List" ->
            [e EXCEPT !.elements = [i \in 1..Len(@) |-> shift(@[i], k)],
                      !.span = shift_span(@, k)]
      [] e.type = "Dictionary" ->
            [e EXCEPT !.pairs = [i \in 1..Len(@) |->
                                    [key |-> @[i].key, value |-> shift(@[i].value, k)]],
                      !.span = shift_span(@, k)]
      [] e.type = "Index" ->
            [e EXCEPT !.object = shift(@, k), !.index = shift(@, k),
                      !.span = shift_span(@, k)]

shift_stmt(stmt, k) ==
    IF stmt.type = "Expression"
    THEN [stmt EXCEPT !.expr = shift(@, k), !.span = shift_span(@, k)]
    ELSE [stmt EXCEPT !.value = shift(@, k), !.span = shift_span(@, k)]

\* the statements programs are made of, by source text
StatementTexts ==
    {"x = 10", "x = \"s\"", "x = u", "y = x / 0", "x += 5", "x /= 0",
     "x *= \"s\"", "x -= u", "x"}

StatementAt0(text) ==
    CASE text = "x = 10" -> Assignment("x", Span(0, 1), IntegerExpr(10, Span(4, 6)))
      [] text = "x = \"s\"" -> Assignment("x", Span(0, 1), StringExpr("s", Span(4, 7)))
      [] text = "x = u" -> Assignment("x", Span(0, 1), Identifier("u", Span(4, 5)))
      [] text = "y = x / 0" ->
            Assignment("y", Span(0, 1),
                       Binary(Identifier("x", Span(4, 5)), "Divide",
                              IntegerExpr(0, Span(8, 9))))
      [] text = "x += 5" ->
            CompoundAssignment("x", Span(0, 1), "Add", IntegerExpr(5, Span(5, 6)))
      [] text = "x /= 0" ->
            CompoundAssignment("x", Span(0, 1), "Divide", IntegerExpr(0, Span(5, 6)))
      [] text = "x *= \"s\"" ->
            CompoundAssignment("x", Span(0, 1), "Multiply", StringExpr("s", Span(5, 8)))
      [] text = "x -= u" ->
            CompoundAssignment("x", Span(0, 1), "Subtract", Identifier("u", Span(5, 6)))
      [] text = "x" -> ExpressionStmt(Identifier("x", Span(0, 1)))
      [] text = "max = 10" ->
            Assignment("max", Span(0, 3), IntegerExpr(10, Span(6, 8)))
      [] text = "max(x, 1)" ->
            ExpressionStmt(FunctionCall("max",
                <<Identifier("x", Span(4, 5)), IntegerExpr(1, Span(7, 8))>>, <<>>,
                Span(0, 9)))

\* a program "s1; s2; ...": each statement starts two characters after the last
RECURSIVE place(_, _, _)
place(texts, i, offset) ==
    IF i > Len(texts) THEN <<>>
    ELSE LET stmt == shift_stmt(StatementAt0(texts[i]), offset)
         IN  <<stmt>> \o place(texts, i + 1, stmt.span.end + 2)

RECURSIVE Sequences(_, _)
Sequences(S, n) ==
    IF n = 0 THEN {<<>>}
    ELSE LET shorter == Sequences(S, n - 1)
         IN  shorter \cup {Append(q, x) : q \in {r \in shorter : Len(r) = n - 1}, x \in S}

Programs == {place(texts, 1, 0) : texts \in Sequences(StatementTexts, MaxStmts)}

NoExpr == IntegerExpr(0, Span(0, 0))
NoLexer == [input |-> <<>>, position |-> 0]

NoCall == [sig |-> new_fixed("", <<>>, ""), args |-> <<>>, kwargs |-> <<>>,
           span |-> Span(0, 0)]

(***************************************************************************)
(* The evaluator: Evaluator::new, then evaluate_program calls, each a loop *)
(* over the statements of its program.                                     *)
(***************************************************************************)
Self == [environment |-> environment, functions |-> functions]

Init ==
    /\ environment = EmptyEnvironment
    /\ functions = get_builtin_functions
    /\ program = <<>>
    /\ pc = 1
    /\ last_value = None
    /\ phase = "idle"
    /\ result = None
    /\ calls = 0
    /\ expr = NoExpr
    /\ call = NoCall
    /\ invoked = None
    /\ lexer = NoLexer
    /\ tokens = <<>>

\* a caller hands a program to evaluate_program: let mut last_value = None
EvaluateProgram ==
    /\ phase \in {"idle", "returned"}
    /\ calls < MaxCalls
    /\ \E p \in Programs : program' = p
    /\ pc' = 1
    /\ last_value' = None
    /\ phase' = "running"
    /\ result' = None
    /\ calls' = calls + 1
    /\ UNCHANGED <<environment, functions, expr, call, invoked, lexer, tokens>>

\* the loop body without the `?`: an error is dropped and the next statement runs
StatementOutcome_continues_after_error(out) ==
    /\ environment' = out.environment
    /\ last_value' = IF IsOk(out.result) THEN out.result.value ELSE last_value
    /\ pc' = pc + 1
    /\ UNCHANGED <<phase, result>>

\* last_value = <outcome>?: an Ok value is kept and the loop goes on, anything
\* else ends the call
StatementOutcome(out) ==
    /\ environment' = out.environment
    /\ IF IsOk(out.result)
       THEN /\ last_value' = out.result.value
            /\ pc' = pc + 1
            /\ UNCHANGED <<phase, result>>
       ELSE /\ result' = Some(out.result)
            /\ phase' = IF IsPanic(out.result) THEN "panicked" ELSE "returned"
            /\ UNCHANGED <<last_value, pc>>

\* one iteration of the loop: last_value = self.evaluate_statement(stmt)?
EvaluateStatement ==
    /\ phase = "running"
    /\ pc <= Len(program)
    /\ StatementOutcome(evaluate_statement(Self, program[pc]))
    /\ UNCHANGED <<functions, program, calls, expr, call, invoked, lexer, tokens>>

\* the loop is over: Ok(last_value)
ReturnLastValue ==
    /\ phase = "running"
    /\ pc > Len(program)
    /\ result' = Some(Ok(last_value))
    /\ phase' = "returned"
    /\ UNCHANGED <<environment, functions, program, pc, last_value, calls, expr, call,
                   invoked, lexer, tokens>>

Next == EvaluateProgram \/ EvaluateStatement \/ ReturnLastValue

Spec == Init /\ [][Next]_vars

(***************************************************************************)
(* The same Evaluator handed programs that bind a variable named like a    *)
(* builtin and call that builtin.                                          *)
(***************************************************************************)
FrameTexts == {"x = 10", "x = u", "x += 5", "x /= 0", "max = 10", "max(x, 1)"}

FramePrograms == {place(texts, 1, 0) : texts \in Sequences(FrameTexts, MaxStmts)}

EvaluateFrameProgram ==
    /\ phase \in {"idle", "returned"}
    /\ calls < MaxCalls
    /\ \E p \in FramePrograms : program' = p
    /\ pc' = 1
    /\ last_value' = None
    /\ phase' = "running"
    /\ result' = None
    /\ calls' = calls + 1
    /\ UNCHANGED <<environment, functions, expr, call, invoked, lexer, tokens>>

NextFrame == EvaluateFrameProgram \/ EvaluateStatement \/ ReturnLastValue

SpecFrame == Init /\ [][NextFrame]_vars

(***************************************************************************)
(* evaluate_expression on its own: an environment a program can build and  *)
(* a binary expression "l op r" over the operands below (a compound        *)
(* operand stands in parentheses, which the parser drops from the span).   *)
(***************************************************************************)
OperandTexts ==
    {"0", "5", "0.0", "2.5", "true", "false", "\"\"", "\"hi\"", "x", "u",
     "[]", "[1]", "{}", "{\"a\": 1}", "5 - 5", "1 / 0", "\"s\" + 1",
     "[[1]]", "[0, \"hi\"]", "{\"hi\": 0}"}

CompoundOperandTexts == {"5 - 5", "1 / 0", "\"s\" + 1"}

OperandAt0(text) ==
    CASE text = "0" -> IntegerExpr(0, Span(0, 1))
      [] text = "5" -> IntegerExpr(5, Span(0, 1))
      [] text = "0.0" -> NumberExpr(FZero, Span(0, 3))
      [] text = "2.5" -> NumberExpr(Frac(5, 2), Span(0, 3))
      [] text = "true" -> BooleanExpr(TRUE, Span(0, 4))
      [] text = "false" -> BooleanExpr(FALSE, Span(0, 5))
      [] text = "\"\"" -> StringExpr("", Span(0, 2))
      [] text = "\"hi\"" -> StringExpr("hi", Span(0, 4))
      [] text = "x" -> Identifier("x", Span(0, 1))
      [] text = "u" -> Identifier("u", Span(0, 1))
      [] text = "[]" -> ListExpr(<<>>, Span(0, 2))
      [] text = "[1]" -> ListExpr(<<IntegerExpr(1, Span(1, 2))>>, Span(0, 3))
      [] text = "{}" -> DictionaryExpr(<<>>, Span(0, 2))
      [] text = "{\"a\": 1}" ->
            DictionaryExpr(<<[key |-> "a", value |-> IntegerExpr(1, Span(6, 7))]>>,
                           Span(0, 8))
      [] text = "[[1]]" ->
            ListExpr(<<ListExpr(<<IntegerExpr(1, Span(2, 3))>>, Span(1, 4))>>, Span(0, 5))
      [] text = "[0, \"hi\"]" ->
            ListExpr(<<IntegerExpr(0, Span(1, 2)), StringExpr("hi", Span(4, 8))>>,
                     Span(0, 9))
      [] text = "{\"hi\": 0}" ->
            DictionaryExpr(<<[key |-> "hi", value |-> IntegerExpr(0, Span(7, 8))]>>,
                           Span(0, 9))
      [] text = "5 - 5" ->
            Binary(IntegerExpr(5, Span(0, 1)), "Subtract", IntegerExpr(5, Span(4, 5)))
      [] text = "1 / 0" ->
            Binary(IntegerExpr(1, Span(0, 1)), "Divide", IntegerExpr(0, Span(4, 5)))
      [] text = "\"s\" + 1" ->
            Binary(StringExpr("s", Span(0, 3)), "Add", IntegerExpr(1, Span(6, 7)))

BinaryOps ==
    ArithmeticOps \cup ComparisonOps \cup {"Equal", "NotEqual", "And", "Or", "In", "NotIn"}

operator_width(operator) ==
    CASE operator \in ArithmeticOps \cup {"Less", "Greater"} -> 1
      [] operator \in {"Equal", "NotEqual", "LessEqual", "GreaterEqual", "Or", "In"} -> 2
      [] operator = "And" -> 3
      [] operator = "NotIn" -> 6

\* the AST of "l op r"
BinaryOf(ltext, operator, rtext) ==
    LET lparen == IF ltext \in CompoundOperandTexts THEN 1 ELSE 0
        rparen == IF rtext \in CompoundOperandTexts THEN 1 ELSE 0
        left == shift(OperandAt0(ltext), lparen)
        rstart == left.span.end + lparen + 1 + operator_width(operator) + 1 + rparen
    IN  Binary(left, operator, shift(OperandAt0(rtext), rstart))

Expressions ==
    {BinaryOf(l, op, r) : l \in OperandTexts, op \in BinaryOps, r \in OperandTexts}

ExprEnvironments ==
    {EmptyEnvironment} \cup
    {define(EmptyEnvironment, "x", v) :
        v \in {Integer(0), Integer(7), Number(Frac(5, 2)), String("")}}

InitExpr ==
    /\ environment \in ExprEnvironments
    /\ functions = get_builtin_functions
    /\ program = <<>>
    /\ pc = 1
    /\ last_value = None
    /\ phase = "expression"
    /\ result = None
    /\ calls = 0
    /\ expr \in Expressions
    /\ call = NoCall
    /\ invoked = None
    /\ lexer = NoLexer
    /\ tokens = <<>>

EvaluateExpression ==
    /\ phase = "expression"
    /\ result' = Some(evaluate_expression(Self, expr))
    /\ phase' = "evaluated"
    /\ UNCHANGED <<environment, functions, program, pc, last_value, calls, expr, call,
                   invoked, lexer, tokens>>

NextExpr == EvaluateExpression

SpecExpr == InitExpr /\ [][NextExpr]_vars

(***************************************************************************)
(* FunctionSignature::call_with_spans on its own: a signature, up to       *)
(* MaxArgs positional and MaxKwargs keyword arguments.  The i-th           *)
(* positional argument has value PositionalValue(i), the j-th keyword      *)
(* argument KeywordValue(j): all different, so that the order of the       *)
(* vector handed to call_impl shows.                                       *)
(***************************************************************************)
BindSignatures ==
    {get_builtin_functions[n] : n \in DOMAIN get_builtin_functions} \cup
    {new_fixed("fixed3", <<"a", "b", "c">>, "builtin_max_impl"),
     new_variadic("variadic1", <<"a">>, "values", "builtin_sum_impl"),
     new_variadic("variadic2", <<"a", "b">>, "values", "builtin_sum_impl")}

KeywordNames == {"a", "b", "c", "values"}

PositionalValue(i) == Integer(i)
KeywordValue(j) == Integer(10 + j)
PositionalSpan(i) == Span(10 * i, 10 * i + 1)
KeywordSpan(j) == Span(100 + 10 * j, 100 + 10 * j + 2)
CallSpan == Span(0, 200)

BindCalls ==
    {[sig |-> sig,
      args |-> [i \in 1..n |-> [value |-> PositionalValue(i), span |-> PositionalSpan(i)]],
      kwargs |-> [j \in 1..Len(names) |->
                     [name |-> names[j], value |-> KeywordValue(j),
                      span |-> KeywordSpan(j)]],
      span |-> CallSpan] :
        sig \in BindSignatures, n \in 0..MaxArgs,
        names \in Sequences(KeywordNames, MaxKwargs)}

InitBind ==
    /\ environment = EmptyEnvironment
    /\ functions = get_builtin_functions
    /\ program = <<>>
    /\ pc = 1
    /\ last_value = None
    /\ phase = "call"
    /\ result = None
    /\ calls = 0
    /\ expr = NoExpr
    /\ call \in BindCalls
    /\ invoked = None
    /\ lexer = NoLexer
    /\ tokens = <<>>

CallWithSpans ==
    /\ phase = "call"
    /\ result' = Some(call_with_spans(call.sig, call.args, call.kwargs, call.span))
    /\ invoked' = LET bound == bound_arguments(call.sig, call.args, call.kwargs, call.span)
                  IN  IF IsOk(bound) THEN Some(bound.value) ELSE None
    /\ phase' = "called"
    /\ UNCHANGED <<environment, functions, program, pc, last_value, calls, expr, call,
                   lexer, tokens>>

NextBind == CallWithSpans

SpecBind == InitBind /\ [][NextBind]_vars

(***************************************************************************)
(* Lexer (lexer/mod.rs, lexer/readers.rs, lexer/token.rs).  A char is a    *)
(* one-character string, the input a sequence of chars, and a Lexer is     *)
(* [input, position]: current_char is always input.get(position).          *)
(* String payloads (identifiers, string literals, error texts) are strings *)
(* built with \o.  Literals are short enough that str::parse::<i64> never  *)
(* overflows.                                                              *)
(***************************************************************************)
invalid_character(ch, span) ==
    [kind |-> "LexError", message |-> <<"Invalid character", ch>>,
     span |-> SourceSpan(span)]

malformed_number(text, span) ==
    [kind |-> "MalformedNumber", message |-> <<"Malformed number", text>>,
     span |-> SourceSpan(span)]

Token(token_type, span) == [token_type |-> token_type, span |-> span]

Plain(type) == [type |-> type]
TokenNumber(n) == [type |-> "Number", f64 |-> n]
TokenInteger(i) == [type |-> "Integer", i64 |-> i]
TokenBoolean(b) == [type |-> "Boolean", bool |-> b]
TokenString(s) == [type |-> "String", str |-> s]
TokenIdentifier(s) == [type |-> "Identifier", name |-> s]

Digits == {"0", "1", "2", "3", "4", "5", "6", "7", "8", "9"}
Letters ==
    {"a", "b", "c", "d", "e", "f", "g", "h", "i", "j", "k", "l", "m", "n", "o", "p",
     "q", "r", "s", "t", "u", "v", "w", "x", "y", "z"}
is_ascii_digit(ch) == ch \in Digits
is_alphabetic(ch) == ch \in Letters
is_alphanumeric(ch) == ch \in Letters \cup Digits
is_whitespace(ch) == ch \in {" ", "\n", "\t", "\r"}

to_digit(ch) ==
    CASE ch = "0" -> 0 [] ch = "1" -> 1 [] ch = "2" -> 2 [] ch = "3" -> 3
      [] ch = "4" -> 4 [] ch = "5" -> 5 [] ch = "6" -> 6 [] ch = "7" -> 7
      [] ch = "8" -> 8 [] ch = "9" -> 9

RECURSIVE collect(_)
collect(chars) ==
    IF chars = <<>> THEN "" ELSE Head(chars) \o collect(Tail(chars))

RECURSIVE Pow10(_)
Pow10(k) == IF k = 0 THEN 1 ELSE 10 * Pow10(k - 1)

\* str::parse::<i64> of a run of digits
RECURSIVE parse_i64(_, _)
parse_i64(number_str, acc) ==
    IF number_str = <<>> THEN acc
    ELSE parse_i64(Tail(number_str), 10 * acc + to_digit(Head(number_str)))

\* str::parse::<f64> of digits with one inner dot: the digits over a power of ten
parse_f64(number_str) ==
    LET dot == CHOOSE k \in 1..Len(number_str) : number_str[k] = "."
    IN  Frac(parse_i64(SelectSeq(number_str, is_ascii_digit), 0),
             Pow10(Len(number_str) - dot))

new(input) == [input |-> input, position |-> 0]

current_char(lx) ==
    IF lx.position < Len(lx.input) THEN Some(lx.input[lx.position + 1]) ELSE None

advance(lx) == [lx EXCEPT !.position = @ + 1]

peek(lx) ==
    IF lx.position + 1 < Len(lx.input) THEN Some(lx.input[lx.position + 2]) ELSE None

RECURSIVE skip_whitespace(_)
skip_whitespace(lx) ==
    IF current_char(lx).some /\ is_whitespace(current_char(lx).value)
    THEN skip_whitespace(advance(lx))
    ELSE lx

\* what a reader or next_token leaves behind: its result and the lexer after it
Lexed(res, lx) == [result |-> res, lexer |-> lx]

\* the inner loop after a second dot: take every further digit and dot, then fail
\* the inner loop left out: the error is returned at the second dot
read_malformed_tail_stops_at_second_dot(lx, start_pos, number_str) ==
    Lexed(Err(malformed_number(collect(number_str), Span(start_pos, lx.position))), lx)

RECURSIVE read_malformed_tail(_, _, _)
read_malformed_tail(lx, start_pos, number_str) ==
    IF current_char(lx).some
       /\ (is_ascii_digit(current_char(lx).value) \/ current_char(lx).value = ".")
    THEN read_malformed_tail(advance(lx), start_pos,
                             Append(number_str, current_char(lx).value))
    ELSE Lexed(Err(malformed_number(collect(number_str), Span(start_pos, lx.position))),
               lx)

\* the validation and conversion after the reading loop
validate_number(lx, start_pos, number_str, is_float) ==
    IF number_str = <<>> \/ number_str = <<".">>
    THEN Lexed(Err(malformed_number(collect(number_str), Span(start_pos, lx.position))),
               lx)
    ELSE IF number_str[Len(number_str)] = "." /\ Len(number_str) > 1
    THEN Lexed(Err(malformed_number(collect(number_str), Span(start_pos, lx.position))),
               lx)
    ELSE IF is_float
    THEN Lexed(Ok(Token(TokenNumber(parse_f64(number_str)), Span(start_pos, lx.position))),
               lx)
    ELSE Lexed(Ok(Token(TokenInteger(parse_i64(number_str, 0)),
                        Span(start_pos, lx.position))), lx)

RECURSIVE read_number_loop(_, _, _, _)
read_number_loop(lx, start_pos, number_str, dot_count) ==
    IF current_char(lx).some /\ is_ascii_digit(current_char(lx).value)
    THEN read_number_loop(advance(lx), start_pos,
                          Append(number_str, current_char(lx).value), dot_count)
    ELSE IF current_char(lx).some /\ current_char(lx).value = "."
    THEN IF dot_count + 1 > 1
         THEN read_malformed_tail(advance(lx), start_pos, Append(number_str, "."))
         ELSE read_number_loop(advance(lx), start_pos, Append(number_str, "."),
                               dot_count + 1)
    ELSE validate_number(lx, start_pos, number_str, dot_count > 0)

read_number_or_check_malformed(lx) == read_number_loop(lx, lx.position, <<>>, 0)

\* the character an escape sequence pushes
escaped(ch) ==
    CASE ch = "n" -> "\n"
      [] ch = "t" -> "\t"
      [] ch = "r" -> "\r"
      [] ch = "\\" -> "\\"
      [] ch = "\"" -> "\""
      [] OTHER -> "\\" \o ch

RECURSIVE read_string_loop(_, _, _)
read_string_loop(lx, start_pos, string_val) ==
    IF ~current_char(lx).some
    THEN Lexed(Err(malformed_number("Unterminated string literal",
                                    Span(start_pos, lx.position))), lx)
    ELSE IF current_char(lx).value = "\""
    THEN Lexed(Ok(Token(TokenString(string_val), Span(start_pos, lx.position + 1))),
               advance(lx))
    ELSE IF current_char(lx).value = "\\"
    THEN IF ~current_char(advance(lx)).some
         THEN Lexed(Err(malformed_number("Unterminated string literal",
                                         Span(start_pos, lx.position + 1))), advance(lx))
         ELSE read_string_loop(advance(advance(lx)), start_pos,
                               string_val \o escaped(current_char(advance(lx)).value))
    ELSE read_string_loop(advance(lx), start_pos, string_val \o current_char(lx).value)

read_string(lx) == read_string_loop(advance(lx), lx.position, "")

keyword_or_identifier(identifier) ==
    CASE identifier = "true" -> TokenBoolean(TRUE)
      [] identifier = "false" -> TokenBoolean(FALSE)
      [] identifier = "and" -> Plain("And")
      [] identifier = "or" -> Plain("Or")
      [] identifier = "not" -> Plain("Not")
      [] identifier = "in" -> Plain("In")
      [] OTHER -> TokenIdentifier(identifier)

RECURSIVE read_identifier_loop(_, _, _)
read_identifier_loop(lx, start_pos, identifier) ==
    IF current_char(lx).some
       /\ (is_alphanumeric(current_char(lx).value) \/ current_char(lx).value = "_")
    THEN read_identifier_loop(advance(lx), start_pos,
                              identifier \o current_char(lx).value)
    ELSE Lexed(Ok(Token(keyword_or_identifier(identifier), Span(start_pos, lx.position))),
               lx)

read_identifier(lx) == read_identifier_loop(lx, lx.position, "")

\* the arms `Some(c) => { advance; if let Some('=') ... }` of next_token
with_assign(ch) ==
    CASE ch = "+" -> "PlusAssign" [] ch = "-" -> "MinusAssign"
      [] ch = "*" -> "MultiplyAssign" [] ch = "/" -> "DivideAssign"
      [] ch = "=" -> "Equal" [] ch = "!" -> "NotEqual"
      [] ch = "<" -> "LessEqual" [] ch = ">" -> "GreaterEqual"

without_assign(ch) ==
    CASE ch = "+" -> "Plus" [] ch = "-" -> "Minus"
      [] ch = "*" -> "Multiply" [] ch = "/" -> "Divide"
      [] ch = "=" -> "Assign" [] ch = "<" -> "Less" [] ch = ">" -> "Greater"

delimiter(ch) ==
    CASE ch = "(" -> "LeftParen" [] ch = ")" -> "RightParen"
      [] ch = "[" -> "LeftBracket" [] ch = "]" -> "RightBracket"
      [] ch = "{" -> "LeftBrace" [] ch = "}" -> "RightBrace"
      [] ch = "," -> "Comma" [] ch = ":" -> "Colon" [] ch = ";" -> "Semicolon"

\* the match of next_token returning a one-character operator without advancing
match_current_char_keeps_operator(lx) ==
    IF ~current_char(lx).some
    THEN Lexed(Ok(Token(Plain("Eof"), single(lx.position))), lx)
    ELSE IF current_char(lx).value \in {"+", "-", "*", "/", "=", "!", "<", ">"}
    THEN IF current_char(advance(lx)) = Some("=")
         THEN Lexed(Ok(Token(Plain(with_assign(current_char(lx).value)),
                             Span(lx.position, lx.position + 2))), advance(advance(lx)))
         ELSE IF current_char(lx).value = "!"
         THEN Lexed(Err(invalid_character("!", single(lx.position))), advance(lx))
         ELSE Lexed(Ok(Token(Plain(without_assign(current_char(lx).value)),
                             single(lx.position))), lx)
    ELSE IF current_char(lx).value \in {"(", ")", "[", "]", "{", "}", ",", ":", ";"}
    THEN Lexed(Ok(Token(Plain(delimiter(current_char(lx).value)), single(lx.position))),
               advance(lx))
    ELSE IF current_char(lx).value = "\""
    THEN read_string(lx)
    ELSE IF is_ascii_digit(current_char(lx).value)
    THEN read_number_or_check_malformed(lx)
    ELSE IF is_alphabetic(current_char(lx).value) \/ current_char(lx).value = "_"
    THEN read_identifier(lx)
    ELSE Lexed(Err(invalid_character(current_char(lx).value, single(lx.position))),
               advance(lx))

\* the match of next_token on current_char, whitespace already skipped
match_current_char(lx) ==
    IF ~current_char(lx).some
    THEN Lexed(Ok(Token(Plain("Eof"), single(lx.position))), lx)
    ELSE IF current_char(lx).value \in {"+", "-", "*", "/", "=", "!", "<", ">"}
    THEN IF current_char(advance(lx)) = Some("=")
         THEN Lexed(Ok(Token(Plain(with_assign(current_char(lx).value)),
                             Span(lx.position, lx.position + 2))), advance(advance(lx)))
         ELSE IF current_char(lx).value = "!"
         THEN Lexed(Err(invalid_character("!", single(lx.position))), advance(lx))
         ELSE Lexed(Ok(Token(Plain(without_assign(current_char(lx).value)),
                             single(lx.position))), advance(lx))
    ELSE IF current_char(lx).value \in {"(", ")", "[", "]", "{", "}", ",", ":", ";"}
    THEN Lexed(Ok(Token(Plain(delimiter(current_char(lx).value)), single(lx.position))),
               advance(lx))
    ELSE IF current_char(lx).value = "\""
    THEN read_string(lx)
    ELSE IF is_ascii_digit(current_char(lx).value)
    THEN read_number_or_check_malformed(lx)
    ELSE IF is_alphabetic(current_char(lx).value) \/ current_char(lx).value = "_"
    THEN read_identifier(lx)
    ELSE Lexed(Err(invalid_character(current_char(lx).value, single(lx.position))),
               advance(lx))

next_token(lx) == match_current_char(skip_whitespace(lx))

(***************************************************************************)
(* Parser (parser/mod.rs, statements.rs, expressions.rs, collections.rs).  *)
(* The Parser's two fields are passed along: tokens, and position as the   *)
(* second argument and in what every method returns, Parsed(result,        *)
(* position).  A `?` is the test ~IsOk(..) that hands the failure on.      *)
(***************************************************************************)
unexpected_token(found, span, expected) ==
    [kind |-> "UnexpectedToken", message |-> <<"found", found>>,
     span |-> SourceSpan(span), expected |-> expected]

unexpected_eof(span, expected) ==
    [kind |-> "UnexpectedEof", span |-> SourceSpan(span), expected |-> expected,
     help_message |-> IF Len(expected) = 1 THEN <<"Expected:">> ELSE <<"Expected one of:">>]

Parsed(res, pos) == [result |-> res, position |-> pos]

current_token(toks, pos) == IF pos < Len(toks) THEN Some(toks[pos + 1]) ELSE None

peek_token(toks, pos) == IF pos + 1 < Len(toks) THEN Some(toks[pos + 2]) ELSE None

\* `Some(Token { token_type: TokenType::X, .. })` as a pattern
is_token(token, type) == token.some /\ token.value.token_type.type = type

token_type_name(type) ==
    CASE type = "Number" -> "number" [] type = "Integer" -> "integer"
      [] type = "Boolean" -> "boolean" [] type = "String" -> "string"
      [] type = "Identifier" -> "identifier"
      [] type = "Plus" -> "+" [] type = "Minus" -> "-"
      [] type = "Multiply" -> "*" [] type = "Divide" -> "/"
      [] type = "Equal" -> "==" [] type = "NotEqual" -> "!="
      [] type = "Less" -> "<" [] type = "Greater" -> ">"
      [] type = "LessEqual" -> "<=" [] type = "GreaterEqual" -> ">="
      [] type = "And" -> "and" [] type = "Or" -> "or"
      [] type = "Not" -> "not" [] type = "In" -> "in"
      [] type = "Assign" -> "=" [] type = "PlusAssign" -> "+="
      [] type = "MinusAssign" -> "-=" [] type = "MultiplyAssign" -> "*="
      [] type = "DivideAssign" -> "/="
      [] type = "LeftParen" -> "(" [] type = "RightParen" -> ")"
      [] type = "LeftBracket" -> "[" [] type = "RightBracket" -> "]"
      [] type = "LeftBrace" -> "{" [] type = "RightBrace" -> "}"
      [] type = "Comma" -> "," [] type = "Colon" -> ":"
      [] type = "Semicolon" -> ";"
      [] type = "Eof" -> "end of input"

\* the span the Eof arms point at: the character before the end of the input
before_eof(span) == IF span.start > 0 THEN single(span.start - 1) ELSE single(0)

\* the span the None arms point at: the last token's
previous_span(toks, pos) == IF pos > 0 THEN toks[pos].span ELSE single(0)

expect_token(toks, pos, expected) ==
    IF is_token(current_token(toks, pos), expected)
    THEN Parsed(Ok(toks[pos + 1]), pos + 1)
    ELSE IF is_token(current_token(toks, pos), "Eof")
    THEN Parsed(Err(unexpected_eof(before_eof(toks[pos + 1].span),
                                   <<token_type_name(expected)>>)), pos)
    ELSE IF current_token(toks, pos).some
    THEN Parsed(Err(unexpected_token(token_type_name(toks[pos + 1].token_type.type),
                                     toks[pos + 1].span,
                                     <<token_type_name(expected)>>)), pos)
    ELSE Parsed(Err(unexpected_eof(previous_span(toks, pos),
                                   <<token_type_name(expected)>>)), pos)

\* the optional `;` that ends a statement
skip_semicolon(toks, pos) ==
    IF is_token(current_token(toks, pos), "Semicolon") THEN pos + 1 ELSE pos

(***************************************************************************)
(* expressions.rs.  The seven binary layers are one loop each, all of the  *)
(* same shape; Layer numbers them from the loosest (1, parse_logical_or)   *)
(* to the tightest (7, parse_multiplicative), and layer_operator is the    *)
(* `match token.token_type` of layer k: the operator it accepts at the     *)
(* current token and the number of tokens it consumes, or None for         *)
(* `_ => break`.                                                           *)
(***************************************************************************)
Accepted(operator, width) == Some([operator |-> operator, width |-> width])

\* the layers with additive and multiplicative operators exchanged: `*` and `/`
\* bind more loosely than `+` and `-`
layer_operator_additive_binds_tighter(level, toks, pos) ==
    LET type == IF current_token(toks, pos).some THEN toks[pos + 1].token_type.type
                ELSE "None"
    IN  CASE level = 1 /\ type = "Or" -> Accepted("Or", 1)
          [] level = 2 /\ type = "And" -> Accepted("And", 1)
          [] level = 3 /\ type = "Equal" -> Accepted("Equal", 1)
          [] level = 3 /\ type = "NotEqual" -> Accepted("NotEqual", 1)
          [] level = 4 /\ type = "Less" -> Accepted("Less", 1)
          [] level = 4 /\ type = "Greater" -> Accepted("Greater", 1)
          [] level = 4 /\ type = "LessEqual" -> Accepted("LessEqual", 1)
          [] level = 4 /\ type = "GreaterEqual" -> Accepted("GreaterEqual", 1)
          [] level = 5 /\ type = "In" -> Accepted("In", 1)
          [] level = 5 /\ type = "Not" /\ is_token(peek_token(toks, pos), "In") ->
                Accepted("NotIn", 2)
          [] level = 7 /\ type = "Plus" -> Accepted("Add", 1)
          [] level = 7 /\ type = "Minus" -> Accepted("Subtract", 1)
          [] level = 6 /\ type = "Multiply" -> Accepted("Multiply", 1)
          [] level = 6 /\ type = "Divide" -> Accepted("Divide", 1)
          [] OTHER -> None

layer_operator(level, toks, pos) ==
    LET type == IF current_token(toks, pos).some THEN toks[pos + 1].token_type.type
                ELSE "None"
    IN  CASE level = 1 /\ type = "Or" -> Accepted("Or", 1)
          [] level = 2 /\ type = "And" -> Accepted("And", 1)
          [] level = 3 /\ type = "Equal" -> Accepted("Equal", 1)
          [] level = 3 /\ type = "NotEqual" -> Accepted("NotEqual", 1)
          [] level = 4 /\ type = "Less" -> Accepted("Less", 1)
          [] level = 4 /\ type = "Greater" -> Accepted("Greater", 1)
          [] level = 4 /\ type = "LessEqual" -> Accepted("LessEqual", 1)
          [] level = 4 /\ type = "GreaterEqual" -> Accepted("GreaterEqual", 1)
          [] level = 5 /\ type = "In" -> Accepted("In", 1)
          [] level = 5 /\ type = "Not" /\ is_token(peek_token(toks, pos), "In") ->
                Accepted("NotIn", 2)
          [] level = 6 /\ type = "Plus" -> Accepted("Add", 1)
          [] level = 6 /\ type = "Minus" -> Accepted("Subtract", 1)
          [] level = 7 /\ type = "Multiply" -> Accepted("Multiply", 1)
          [] level = 7 /\ type = "Divide" -> Accepted("Divide", 1)
          [] OTHER -> None

RECURSIVE parse_layer(_, _, _)
RECURSIVE layer_from(_, _, _, _)
RECURSIVE layer_loop(_, _, _)
RECURSIVE layer_fold(_, _, _, _, _)
RECURSIVE parse_unary(_, _)
RECURSIVE parse_postfix(_, _)
RECURSIVE postfix_loop(_, _)
RECURSIVE postfix_index(_, _, _)
RECURSIVE postfix_close(_, _, _, _)
RECURSIVE parse_primary(_, _)
RECURSIVE parse_arguments(_, _, _, _, _, _, _)
RECURSIVE after_argument(_, _, _, _, _, _, _)
RECURSIVE parse_list(_, _)
RECURSIVE list_loop(_, _, _, _)
RECURSIVE parse_dictionary(_, _)
RECURSIVE dictionary_loop(_, _, _, _)
RECURSIVE dictionary_value(_, _, _, _, _, _)

\* the method of layer `level`, once the method of layer `inner` + 1 has
\* returned `left` to the method of layer `inner`: let mut left = next()?;
\* while let Some(token) = current_token() { ... }; the ? hands the error of
\* an inner layer to every outer one
layer_from(toks, level, inner, left) ==
    IF inner < level THEN left
    ELSE LET folded == layer_loop(toks, inner, left)
         IN  IF folded.result.tag # "Ok" THEN folded
             ELSE layer_from(toks, level, inner - 1, folded)

\* the method of layer `level`: each layer calls the next one first, so the
\* first thing parsed is the unary expression at pos
parse_layer(toks, pos, level) ==
    IF level > 7 THEN parse_unary(toks, pos)
    ELSE layer_from(toks, level, 7, parse_unary(toks, pos))

\* the head of the while loop of layer `level`, left being what is parsed so far
layer_loop(toks, level, left) ==
    IF ~IsOk(left.result) THEN left
    ELSE LET op == layer_operator(level, toks, left.position)
         IN  IF ~op.some THEN left
             ELSE layer_fold(toks, level, left.result.value, op.value.operator,
                             parse_layer(toks, left.position + op.value.width, level + 1))

\* the rest of the loop body: let right = next()?; left = Expr::Binary { .. }
layer_fold(toks, level, left, operator, right) ==
    IF ~IsOk(right.result) THEN right
    ELSE layer_loop(toks, level,
                    Parsed(Ok(Binary(left, operator, right.result.value)), right.position))

parse_logical_or(toks, pos) == parse_layer(toks, pos, 1)
parse_logical_and(toks, pos) == parse_layer(toks, pos, 2)
parse_equality(toks, pos) == parse_layer(toks, pos, 3)
parse_comparison(toks, pos) == parse_layer(toks, pos, 4)
parse_membership(toks, pos) == parse_layer(toks, pos, 5)
parse_additive(toks, pos) == parse_layer(toks, pos, 6)
parse_multiplicative(toks, pos) == parse_layer(toks, pos, 7)

parse_expression(toks, pos) == parse_logical_or(toks, pos)

unary_operator(type) ==
    CASE type = "Minus" -> "Minus" [] type = "Plus" -> "Plus" [] type = "Not" -> "Not"

\* Ok(Expr::Unary { .. }) once the operand is parsed
unary_of(operator, op_span, operand) ==
    IF ~IsOk(operand.result) THEN operand
    ELSE Parsed(Ok(Unary(operator, operand.result.value, op_span)), operand.position)

parse_unary(toks, pos) ==
    IF current_token(toks, pos).some
       /\ toks[pos + 1].token_type.type \in {"Minus", "Plus", "Not"}
    THEN unary_of(unary_operator(toks[pos + 1].token_type.type), toks[pos + 1].span,
                  parse_postfix(toks, pos + 1))
    ELSE parse_postfix(toks, pos)

parse_postfix(toks, pos) == postfix_loop(toks, parse_primary(toks, pos))

postfix_loop(toks, e) ==
    IF ~IsOk(e.result) THEN e
    ELSE IF is_token(current_token(toks, e.position), "LeftBracket")
    THEN postfix_index(toks, e.result.value, parse_expression(toks, e.position + 1))
    ELSE e

postfix_index(toks, object, index) ==
    IF ~IsOk(index.result) THEN index
    ELSE postfix_close(toks, object, index.result.value,
                       expect_token(toks, index.position, "RightBracket"))

postfix_close(toks, object, index, right_bracket) ==
    IF ~IsOk(right_bracket.result) THEN right_bracket
    ELSE postfix_loop(toks, Parsed(Ok(Index(object, index, right_bracket.result.value.span)),
                                   right_bracket.position))

\* a literal token becomes the literal expression with the token's span
literal(token) ==
    CASE token.token_type.type = "Number" -> NumberExpr(token.token_type.f64, token.span)
      [] token.token_type.type = "Integer" -> IntegerExpr(token.token_type.i64, token.span)
      [] token.token_type.type = "Boolean" -> BooleanExpr(token.token_type.bool, token.span)
      [] token.token_type.type = "String" -> StringExpr(token.token_type.str, token.span)

\* let right_paren = expect_token(RightParen)?; Ok(Expr::FunctionCall { .. })
close_call(name, start_span, args, kwargs, right_paren) ==
    IF ~IsOk(right_paren.result) THEN right_paren
    ELSE Parsed(Ok(FunctionCall(name, args, kwargs,
                                combine(start_span, right_paren.result.value.span))),
                right_paren.position)

\* the argument loop without the two `if found_kwarg` tests
parse_arguments_accepts_positional(toks, pos, name, start_span, args, kwargs, found_kwarg) ==
    IF is_token(current_token(toks, pos), "Identifier")
       /\ is_token(peek_token(toks, pos), "Assign")
    THEN after_argument(toks, name, start_span, args, kwargs,
                        Some(toks[pos + 1].token_type.name),
                        parse_expression(toks, pos + 2))
    ELSE after_argument(toks, name, start_span, args, kwargs, None,
                        parse_expression(toks, pos))

\* the head of the argument loop, pos being where the next argument starts
parse_arguments(toks, pos, name, start_span, args, kwargs, found_kwarg) ==
    IF is_token(current_token(toks, pos), "Identifier")
       /\ is_token(peek_token(toks, pos), "Assign")
    THEN after_argument(toks, name, start_span, args, kwargs,
                        Some(toks[pos + 1].token_type.name),
                        parse_expression(toks, pos + 2))
    ELSE IF found_kwarg
    THEN IF current_token(toks, pos).some
         THEN Parsed(Err(unexpected_token("positional argument", toks[pos + 1].span,
                                          <<"keyword argument">>)), pos)
         ELSE Parsed(Panic("called Option::unwrap() on a None value"), pos)
    ELSE after_argument(toks, name, start_span, args, kwargs, None,
                        parse_expression(toks, pos))

\* the argument is pushed, then `match self.current_token()`; keyword is the
\* parameter name of a keyword argument
after_argument(toks, name, start_span, args, kwargs, keyword, value) ==
    IF ~IsOk(value.result) THEN value
    ELSE IF is_token(current_token(toks, value.position), "Comma")
    THEN parse_arguments(toks, value.position + 1, name, start_span,
            IF keyword.some THEN args ELSE Append(args, value.result.value),
            IF keyword.some
            THEN Append(kwargs, [name |-> keyword.value, value |-> value.result.value])
            ELSE kwargs,
            keyword.some \/ kwargs # <<>>)
    ELSE IF is_token(current_token(toks, value.position), "RightParen")
    THEN close_call(name, start_span,
            IF keyword.some THEN args ELSE Append(args, value.result.value),
            IF keyword.some
            THEN Append(kwargs, [name |-> keyword.value, value |-> value.result.value])
            ELSE kwargs,
            expect_token(toks, value.position, "RightParen"))
    ELSE IF current_token(toks, value.position).some
    THEN Parsed(Err(unexpected_token(
                       token_type_name(toks[value.position + 1].token_type.type),
                       toks[value.position + 1].span, <<",", ")">>)), value.position)
    ELSE Parsed(Err(unexpected_eof(start_span, <<",", ")">>)), value.position)

\* Some(Identifier) arm of parse_primary, pos being just after the identifier
identifier_or_call(toks, pos, name, start_span) ==
    IF is_token(current_token(toks, pos), "LeftParen")
    THEN IF is_token(current_token(toks, pos + 1), "RightParen")
         THEN close_call(name, start_span, <<>>, <<>>,
                         expect_token(toks, pos + 1, "RightParen"))
         ELSE parse_arguments(toks, pos + 1, name, start_span, <<>>, <<>>, FALSE)
    ELSE Parsed(Ok(Identifier(name, start_span)), pos)

\* let right_paren = expect_token(RightParen)?; Ok(expr)
close_paren(e, right_paren) ==
    IF ~IsOk(right_paren.result) THEN right_paren
    ELSE Parsed(e.result, right_paren.position)

\* Some(LeftParen) arm of parse_primary, e being the expression inside
parenthesised(toks, e) ==
    IF ~IsOk(e.result) THEN e
    ELSE close_paren(e, expect_token(toks, e.position, "RightParen"))

parse_primary(toks, pos) ==
    LET type == IF current_token(toks, pos).some THEN toks[pos + 1].token_type.type
                ELSE "None"
    IN  CASE type \in {"Number", "Integer", "Boolean", "String"} ->
                Parsed(Ok(literal(toks[pos + 1])), pos + 1)
          [] type = "Identifier" ->
                identifier_or_call(toks, pos + 1, toks[pos + 1].token_type.name,
                                   toks[pos + 1].span)
          [] type = "LeftParen" -> parenthesised(toks, parse_expression(toks, pos + 1))
          [] type = "LeftBracket" -> parse_list(toks, pos)
          [] type = "LeftBrace" -> parse_dictionary(toks, pos)
          [] type = "Eof" ->
                Parsed(Err(unexpected_eof(before_eof(toks[pos + 1].span),
                                          <<"number", "identifier", "(">>)), pos)
          [] type = "None" ->
                Parsed(Err(unexpected_eof(previous_span(toks, pos),
                                          <<"number", "identifier", "(">>)), pos)
          [] OTHER ->
                Parsed(Err(unexpected_token(token_type_name(type), toks[pos + 1].span,
                                            <<"number", "identifier", "(">>)), pos)

(***************************************************************************)
(* collections.rs                                                          *)
(***************************************************************************)
\* let right = expect_token(..)?; Ok(collection with span start_span..right)
close_list(start_span, elements, right_bracket) ==
    IF ~IsOk(right_bracket.result) THEN right_bracket
    ELSE Parsed(Ok(ListExpr(elements, combine(start_span, right_bracket.result.value.span))),
                right_bracket.position)

\* elements.push(parse_expression()?), then `match self.current_token()`
list_loop(toks, start_span, elements, element) ==
    IF ~IsOk(element.result) THEN element
    ELSE IF is_token(current_token(toks, element.position), "Comma")
    THEN list_loop(toks, start_span, Append(elements, element.result.value),
                   parse_expression(toks, element.position + 1))
    ELSE IF is_token(current_token(toks, element.position), "RightBracket")
    THEN close_list(start_span, Append(elements, element.result.value),
                    expect_token(toks, element.position, "RightBracket"))
    ELSE IF current_token(toks, element.position).some
    THEN Parsed(Err(unexpected_token(
                       token_type_name(toks[element.position + 1].token_type.type),
                       toks[element.position + 1].span, <<",", "]">>)), element.position)
    ELSE Parsed(Err(unexpected_eof(start_span, <<",", "]">>)), element.position)

\* parse_primary calls parse_list with a LeftBracket at pos, so that the first
\* expect_token succeeds
parse_list(toks, pos) ==
    IF ~is_token(current_token(toks, pos), "LeftBracket")
    THEN expect_token(toks, pos, "LeftBracket")
    ELSE IF is_token(current_token(toks, pos + 1), "RightBracket")
    THEN close_list(toks[pos + 1].span, <<>>, expect_token(toks, pos + 1, "RightBracket"))
    ELSE list_loop(toks, toks[pos + 1].span, <<>>, parse_expression(toks, pos + 1))

close_dictionary(start_span, pairs, right_brace) ==
    IF ~IsOk(right_brace.result) THEN right_brace
    ELSE Parsed(Ok(DictionaryExpr(pairs, combine(start_span, right_brace.result.value.span))),
                right_brace.position)

\* the head of the pair loop: the key must be a String token, then a Colon
dictionary_loop(toks, pos, start_span, pairs) ==
    IF is_token(current_token(toks, pos), "String")
    THEN dictionary_value(toks, start_span, pairs, toks[pos + 1].token_type.str,
                          expect_token(toks, pos + 1, "Colon"),
                          parse_expression(toks, pos + 2))
    ELSE IF current_token(toks, pos).some
    THEN Parsed(Err(unexpected_token(token_type_name(toks[pos + 1].token_type.type),
                                     toks[pos + 1].span, <<"string">>)), pos)
    ELSE Parsed(Err(unexpected_eof(start_span, <<"string">>)), pos)

\* expect_token(Colon)?; let value = parse_expression()?; pairs.push(..); match ..
\* (value is what parse_expression gives right after the colon, looked at only
\* when the colon is there)
dictionary_value(toks, start_span, pairs, key, colon, value) ==
    IF ~IsOk(colon.result) THEN colon
    ELSE IF ~IsOk(value.result) THEN value
    ELSE IF is_token(current_token(toks, value.position), "Comma")
    THEN dictionary_loop(toks, value.position + 1, start_span,
                         Append(pairs, [key |-> key, value |-> value.result.value]))
    ELSE IF is_token(current_token(toks, value.position), "RightBrace")
    THEN close_dictionary(start_span,
                          Append(pairs, [key |-> key, value |-> value.result.value]),
                          expect_token(toks, value.position, "RightBrace"))
    ELSE IF current_token(toks, value.position).some
    THEN Parsed(Err(unexpected_token(
                       token_type_name(toks[value.position + 1].token_type.type),
                       toks[value.position + 1].span, <<",", "}">>)), value.position)
    ELSE Parsed(Err(unexpected_eof(start_span, <<",", "}">>)), value.position)

parse_dictionary(toks, pos) ==
    IF ~is_token(current_token(toks, pos), "LeftBrace")
    THEN expect_token(toks, pos, "LeftBrace")
    ELSE IF is_token(current_token(toks, pos + 1), "RightBrace")
    THEN close_dictionary(toks[pos + 1].span, <<>>,
                          expect_token(toks, pos + 1, "RightBrace"))
    ELSE dictionary_loop(toks, pos + 1, toks[pos + 1].span, <<>>)

(***************************************************************************)
(* statements.rs and Parser::parse                                         *)
(***************************************************************************)
\* the statement once its expression is parsed, and the optional `;` skipped
expression_statement_of(toks, e) ==
    IF ~IsOk(e.result) THEN e
    ELSE Parsed(Ok(ExpressionStmt(e.result.value)), skip_semicolon(toks, e.position))

assignment_of(toks, name, name_span, value) ==
    IF ~IsOk(value.result) THEN value
    ELSE Parsed(Ok(Assignment(name, name_span, value.result.value)),
                skip_semicolon(toks, value.position))

compound_assignment_of(toks, name, name_span, operator, value) ==
    IF ~IsOk(value.result) THEN value
    ELSE Parsed(Ok(CompoundAssignment(name, name_span, operator, value.result.value)),
                skip_semicolon(toks, value.position))

\* called with an Identifier at pos; expect_token(Assign)? then the value
parse_assignment(toks, pos) ==
    IF ~is_token(current_token(toks, pos), "Identifier")
    THEN Parsed(Err(unexpected_token("Expected identifier",
                       IF current_token(toks, pos).some THEN toks[pos + 1].span
                       ELSE single(0), <<"identifier">>)), pos)
    ELSE IF ~IsOk(expect_token(toks, pos + 1, "Assign").result)
    THEN expect_token(toks, pos + 1, "Assign")
    ELSE assignment_of(toks, toks[pos + 1].token_type.name, toks[pos + 1].span,
                       parse_expression(toks, pos + 2))

compound_op(type) ==
    CASE type = "PlusAssign" -> "Add" [] type = "MinusAssign" -> "Subtract"
      [] type = "MultiplyAssign" -> "Multiply" [] type = "DivideAssign" -> "Divide"

CompoundAssignTokens == {"PlusAssign", "MinusAssign", "MultiplyAssign", "DivideAssign"}

parse_compound_assignment(toks, pos) ==
    IF ~is_token(current_token(toks, pos), "Identifier")
    THEN Parsed(Err(unexpected_token("Expected identifier",
                       IF current_token(toks, pos).some THEN toks[pos + 1].span
                       ELSE single(0), <<"identifier">>)), pos)
    ELSE IF ~current_token(toks, pos + 1).some
    THEN Parsed(Err(unexpected_eof(toks[pos + 1].span, <<"+=", "-=", "*=", "/=">>)),
                pos + 1)
    ELSE IF toks[pos + 2].token_type.type \notin CompoundAssignTokens
    THEN Parsed(Err(unexpected_token(token_type_name(toks[pos + 2].token_type.type),
                                     toks[pos + 2].span, <<"+=", "-=", "*=", "/=">>)),
                pos + 1)
    ELSE compound_assignment_of(toks, toks[pos + 1].token_type.name, toks[pos + 1].span,
                                compound_op(toks[pos + 2].token_type.type),
                                parse_expression(toks, pos + 2))

parse_statement(toks, pos) ==
    IF is_token(current_token(toks, pos), "Identifier")
       /\ is_token(peek_token(toks, pos), "Assign")
    THEN parse_assignment(toks, pos)
    ELSE IF is_token(current_token(toks, pos), "Identifier")
            /\ peek_token(toks, pos).some
            /\ toks[pos + 2].token_type.type \in CompoundAssignTokens
    THEN parse_compound_assignment(toks, pos)
    ELSE expression_statement_of(toks, parse_expression(toks, pos))

RECURSIVE parse_loop(_, _, _)
RECURSIVE parse_push(_, _, _)

\* while let Some(token) = current_token() { if Eof { break } .. }
parse_loop(toks, pos, statements) ==
    IF ~current_token(toks, pos).some \/ is_token(current_token(toks, pos), "Eof")
    THEN Ok(statements)
    ELSE parse_push(toks, statements, parse_statement(toks, pos))

\* let stmt = self.parse_statement()?; statements.push(stmt)
parse_push(toks, statements, stmt) ==
    IF ~IsOk(stmt.result) THEN stmt.result
    ELSE parse_loop(toks, stmt.position, Append(statements, stmt.result.value))

\* Parser::new(tokens).parse(): Ok(Program { statements }) or the first error
parse(toks) == parse_loop(toks, 0, <<>>)

(***************************************************************************)
(* The path of a source text (evaluate_input of main.rs): Lexer::new and   *)
(* tokenize, one next_token per step, then Parser::new(tokens).parse(),    *)
(* then evaluate_program on a fresh Evaluator, each `?` ending the path.   *)
(* The sources are every text of at most MaxInput characters over          *)
(* Alphabet, and every prefix of: a call of max with up to MaxCallArgs     *)
(* arguments, positional and keyword in any order; two binary operators    *)
(* between three operands; and a few whole programs.  To these are added,  *)
(* whole, the statements whose evaluation is studied: an arithmetic        *)
(* operator between two operands, a unary operator, a compound assignment  *)
(* to x and an index, each after a statement that binds x or after none,   *)
(* and calls with up to MaxEvaluatedArgs positional and as many keyword    *)
(* arguments.                                                              *)
(***************************************************************************)
MaxInput == 4
MaxCallArgs == 3
MaxEvaluatedArgs == 2

Alphabet == {"7", ".", "x", " ", "+", "=", "\"", "!"}

RECURSIVE Join(_, _)
Join(texts, separator) ==
    IF texts = <<>> THEN <<>>
    ELSE IF Len(texts) = 1 THEN texts[1]
    ELSE texts[1] \o separator \o Join(Tail(texts), separator)

Prefixes(texts) == UNION {{SubSeq(t, 1, k) : k \in 0..Len(t)} : t \in texts}

ArgumentTexts ==
    {<<"1">>, <<"x">>, <<"a", "=", "1">>, <<"b", "=", "x">>, <<"-", "2">>, <<"[", "1", "]">>}

CallTexts ==
    {<<"m", "a", "x", "(">> \o Join(arguments, <<",", " ">>) \o <<")">> :
        arguments \in Sequences(ArgumentTexts, MaxCallArgs)}

OperatorTexts ==
    {<<"o", "r">>, <<"a", "n", "d">>, <<"=", "=">>, <<"!", "=">>, <<"<">>, <<">">>,
     <<"<", "=">>, <<">", "=">>, <<"i", "n">>, <<"n", "o", "t", " ", "i", "n">>,
     <<"+">>, <<"-">>, <<"*">>, <<"/">>}

ExpressionTexts ==
    {Join(<<first, op1, <<"b">>, op2, last>>, <<" ">>) :
        first \in {<<"a">>, <<"-", "a">>, <<"n", "o", "t", " ", "a">>},
        op1 \in OperatorTexts, op2 \in OperatorTexts,
        last \in {<<"c">>, <<"c", "[", "0", "]">>}}

ProgramTexts ==
    {<<"x", " ", "=", " ", "1", "0", ";", " ", "x", " ", "+", "=", " ", "5", ";", " ", "x">>,
     <<"x", " ", "=", " ", "[", "1", ",", " ", "2", ".", "5", "]", "\n", "x", "[", "1", "]">>,
     <<"d", " ", "=", " ", "{", "\"", "k", "\"", ":", " ", "(", "1", ")", "}", " ",
       "d", "[", "\"", "k", "\"", "]">>,
     <<"s", " ", "=", " ", "\"", "a", "\\", "n", "\"", ";", "s", " ", "*", "=", " ", "2">>,
     <<"m", "a", "x", "(", "m", "i", "n", "(", "1", ",", "b", "=", "2", ")", ",", " ",
       "3", ")">>}

\* operands of every kind of value, and three that fail: an undefined
\* variable, a division by zero and an operand of the wrong type
EvaluatedOperandTexts ==
    {<<"0">>, <<"5">>, <<"2", ".", "5">>, <<"t", "r", "u", "e">>,
     <<"\"", "h", "i", "\"">>, <<"x">>, <<"u">>, <<"[", "]">>,
     <<"[", "1", ",", " ", "2", ".", "5", "]">>, <<"(", "5", " ", "-", " ", "5", ")">>,
     <<"(", "1", " ", "/", " ", "0", ")">>,
     <<"(", "\"", "s", "\"", " ", "+", " ", "1", ")">>,
     <<"{", "\"", "a", "\"", ":", " ", "1", "}">>}

\* statements that bind x before the statement under study
PreambleTexts ==
    {<<>>, <<"x", " ", "=", " ", "0", ";", " ">>,
     <<"x", " ", "=", " ", "1", "0", ";", " ">>,
     <<"x", " ", "=", " ", "2", ".", "5", ";", " ">>,
     <<"x", " ", "=", " ", "\"", "s", "\"", ";", " ">>,
     <<"x", " ", "=", " ", "[", "1", ",", " ", "2", ".", "5", "]", ";", " ">>}

ArithmeticTexts ==
    {left \o <<" ", op, " ">> \o right :
        left \in EvaluatedOperandTexts, op \in {"+", "-", "*", "/"},
        right \in EvaluatedOperandTexts}

UnaryTexts == {<<op>> \o operand : op \in {"-", "+"}, operand \in EvaluatedOperandTexts}

CompoundTexts ==
    {<<"x", " ", op, "=", " ">> \o operand :
        op \in {"+", "-", "*", "/"}, operand \in EvaluatedOperandTexts}

IndexTexts ==
    {object \o <<"[">> \o index \o <<"]">> :
        object \in EvaluatedOperandTexts,
        index \in EvaluatedOperandTexts \cup {<<"1">>, <<"2">>, <<"(", "1", " ", "+", " ", "0", ")">>}}

\* calls of a registered and of an unregistered function, the arguments
\* succeeding or failing, the keywords accepted (a, b) or not (c)
PositionalTexts ==
    {<<"1">>, <<"u">>, <<"(", "1", " ", "/", " ", "0", ")">>}
KeywordTexts ==
    {<<"a", " ", "=", " ", "2">>, <<"b", " ", "=", " ", "u">>,
     <<"c", " ", "=", " ", "3">>,
     <<"c", " ", "=", " ", "(", "1", " ", "/", " ", "0", ")">>}

EvaluatedCallTexts ==
    {name \o <<"(">> \o Join(positional \o keyword, <<",", " ">>) \o <<")">> :
        name \in {<<"m", "a", "x">>, <<"f">>},
        positional \in Sequences(PositionalTexts, MaxEvaluatedArgs),
        keyword \in Sequences(KeywordTexts, MaxEvaluatedArgs)}

EvaluatedTexts ==
    {preamble \o text :
        preamble \in PreambleTexts,
        text \in ArithmeticTexts \cup UnaryTexts \cup CompoundTexts \cup IndexTexts}
        \cup EvaluatedCallTexts

Sources ==
    Sequences(Alphabet, MaxInput)
        \cup Prefixes(CallTexts \cup ExpressionTexts \cup ProgramTexts)
        \cup EvaluatedTexts

InitSource ==
    /\ environment = EmptyEnvironment
    /\ functions = get_builtin_functions
    /\ program = <<>>
    /\ pc = 1
    /\ last_value = None
    /\ phase = "tokenizing"
    /\ result = None
    /\ calls = 0
    /\ expr = NoExpr
    /\ call = NoCall
    /\ invoked = None
    /\ \E input \in Sources : lexer = new(input)
    /\ tokens = <<>>

\* the loop body breaking at Eof before the push
TokenOutcome_breaks_before_push(lexed) ==
    /\ lexer' = lexed.lexer
    /\ IF IsOk(lexed.result)
       THEN /\ tokens' = IF lexed.result.value.token_type.type = "Eof" THEN tokens
                         ELSE Append(tokens, lexed.result.value)
            /\ phase' = IF lexed.result.value.token_type.type = "Eof" THEN "tokenized"
                        ELSE "tokenizing"
            /\ UNCHANGED result
       ELSE /\ result' = Some(lexed.result)
            /\ phase' = "lex_failed"
            /\ UNCHANGED tokens

\* let token = self.next_token()?; tokens.push(token); if is_eof { break }
TokenOutcome(lexed) ==
    /\ lexer' = lexed.lexer
    /\ IF IsOk(lexed.result)
       THEN /\ tokens' = Append(tokens, lexed.result.value)
            /\ phase' = IF lexed.result.value.token_type.type = "Eof" THEN "tokenized"
                        ELSE "tokenizing"
            /\ UNCHANGED result
       ELSE /\ result' = Some(lexed.result)
            /\ phase' = "lex_failed"
            /\ UNCHANGED tokens

\* one iteration of the loop of tokenize
NextToken ==
    /\ phase = "tokenizing"
    /\ TokenOutcome(next_token(lexer))
    /\ UNCHANGED <<environment, functions, program, pc, last_value, calls, expr, call,
                   invoked>>

\* let program = parser.parse()?: the program goes to evaluate_program
ParseOutcome(parsed) ==
    IF IsOk(parsed)
    THEN /\ program' = parsed.value
         /\ pc' = 1
         /\ last_value' = None
         /\ phase' = "running"
         /\ calls' = calls + 1
         /\ UNCHANGED result
    ELSE /\ result' = Some(parsed)
         /\ phase' = IF IsPanic(parsed) THEN "panicked" ELSE "parse_failed"
         /\ UNCHANGED <<program, pc, last_value, calls>>

Parse ==
    /\ phase = "tokenized"
    /\ ParseOutcome(parse(tokens))
    /\ UNCHANGED <<environment, functions, expr, call, invoked, lexer, tokens>>

NextSource == NextToken \/ Parse \/ EvaluateStatement \/ ReturnLastValue

SpecSource == InitSource /\ [][NextSource]_vars

(***************************************************************************)
(* Properties of evaluate_program (specification Spec)                     *)
(***************************************************************************)
FailedAt(type) ==
    /\ phase = "returned"
    /\ result.some
    /\ IsErr(result.value)
    /\ pc <= Len(program)
    /\ program[pc].type = type

\* C1: when x is defined and the statement `x op= e` fails -- e fails to
\* evaluate, x or e is not a number, or the division is by zero -- the call
\* returns the error and every binding, x's included, is what it was before
\* the statement.
C1_CompoundAssignmentIsolation ==
    [][(/\ phase = "running"
        /\ pc <= Len(program)
        /\ program[pc].type = "CompoundAssignment"
        /\ program[pc].name \in DOMAIN environment
        /\ phase' = "returned"
        /\ IsErr(result'.value))
       => /\ environment' = environment
          /\ environment'[program[pc].name] = environment[program[pc].name]]_vars

\* `x = 10; x /= 0` has returned DivisionByZero and x is still Integer 10
C1_Witness ==
    /\ FailedAt("CompoundAssignment")
    /\ program[pc].operator = "Divide"
    /\ result.value.error.kind = "DivisionByZero"
    /\ get(environment, program[pc].name) = Some(Integer(10))

\* C2: an assignment `name = e` whose right-hand side fails leaves the
\* environment as it was (name stays undefined, or keeps its value) and
\* returns e's error; the name is bound, to e's value, only when e has
\* evaluated.
C2_AssignmentIsolation ==
    [][(/\ phase = "running"
        /\ pc <= Len(program)
        /\ program[pc].type = "Assignment")
       => LET name == program[pc].name
              e == evaluate_expression(Self, program[pc].value)
          IN  IF IsOk(e)
              THEN /\ DOMAIN environment' = DOMAIN environment \cup {name}
                   /\ environment'[name] = e.value
                   /\ \A n \in DOMAIN environment \ {name} :
                          environment'[n] = environment[n]
              ELSE /\ environment' = environment
                   /\ result' = Some(e)
                   /\ phase' # "running"]_vars

\* `x = 10; y = x / 0` has failed: x is bound and y is not
C2_Witness ==
    /\ FailedAt("Assignment")
    /\ result.value.error.kind = "DivisionByZero"
    /\ program[pc].name \notin DOMAIN environment
    /\ environment # EmptyEnvironment

\* C3: evaluate_program runs the statements in program order; the first
\* statement to fail ends the call with its error, at that statement, so no
\* later statement runs; what the earlier statements did to the environment
\* stays, and is what the next evaluate_program call on the evaluator starts
\* from.
C3_HaltAtFirstError ==
    [][/\ (phase = "running" /\ pc <= Len(program)) =>
             LET out == evaluate_statement(Self, program[pc])
             IN  /\ environment' = out.environment
                 /\ program' = program
                 /\ calls' = calls
                 /\ IF IsOk(out.result)
                    THEN phase' = "running" /\ pc' = pc + 1
                    ELSE /\ phase' # "running"
                         /\ result' = Some(out.result)
                         /\ pc' = pc
       /\ (phase = "running" /\ pc > Len(program)) =>
             /\ environment' = environment
             /\ phase' = "returned"
             /\ result' = Some(Ok(last_value))
       /\ (phase # "running") =>
             /\ environment' = environment
             /\ calls' = calls + 1
             /\ phase' = "running"
             /\ pc' = 1]_vars

\* a second call failed at its first statement of two, on an environment an
\* earlier call left behind
C3_Witness ==
    /\ calls = 2
    /\ phase = "returned"
    /\ IsErr(result.value)
    /\ pc = 1
    /\ Len(program) = 2
    /\ environment # EmptyEnvironment

(***************************************************************************)
(* Properties of evaluate_expression (specification SpecExpr)              *)
(***************************************************************************)
Falsy(v) ==
    \/ v = Boolean(FALSE)
    \/ v = Integer(0)
    \/ v = Number(FZero)
    \/ v = String("")
    \/ v = List(<<>>)
    \/ v = Dictionary(EmptyDict)

\* C4: `L and R` with L falsy is L's value and `L or R` with L truthy is L's
\* value whatever R is, an R whose evaluation fails included: R is not
\* evaluated.
C4_ShortCircuit ==
    (phase = "evaluated" /\ expr.operator \in {"And", "Or"}) =>
        LET l == evaluate_expression(Self, expr.left)
        IN  (IsOk(l) /\ (Falsy(l.value) <=> expr.operator = "And"))
                => result.value = Ok(l.value)

\* C5: when L and R both evaluate, to l and r, `L and R` is l if l is falsy
\* and r otherwise, and `L or R` is l if l is truthy and r otherwise: the
\* operand's value, not its truth value.
C5_LogicalOperatorsReturnOperands ==
    (phase = "evaluated" /\ expr.operator \in {"And", "Or"}) =>
        LET l == evaluate_expression(Self, expr.left)
            r == evaluate_expression(Self, expr.right)
        IN  (IsOk(l) /\ IsOk(r)) =>
                result.value =
                    IF expr.operator = "And"
                    THEN (IF Falsy(l.value) THEN Ok(l.value) ELSE Ok(r.value))
                    ELSE (IF ~Falsy(l.value) THEN Ok(l.value) ELSE Ok(r.value))

\* `0 and 5` is Integer 0
C5_Witness ==
    /\ phase = "evaluated"
    /\ expr.operator = "And"
    /\ expr.left.type = "Integer"
    /\ expr.left.i64 = 0
    /\ expr.right.type = "Integer"
    /\ expr.right.i64 = 5
    /\ result.value = Ok(Integer(0))

IsNumeric(v) == v.kind \in {"Number", "Integer"}

\* C6: `a / b` with a and b numbers and b zero -- Integer 0 or Number 0.0,
\* from a literal, a variable or a computed operand -- is a DivisionByZero
\* error, whose span is the division's and whose divisor span is b's.
C6_DivisionByZero ==
    (phase = "evaluated" /\ expr.operator = "Divide") =>
        LET a == evaluate_expression(Self, expr.left)
            b == evaluate_expression(Self, expr.right)
        IN  (/\ IsOk(a) /\ IsOk(b)
             /\ IsNumeric(a.value) /\ IsNumeric(b.value)
             /\ (b.value = Integer(0) \/ b.value = Number(FZero)))
            => /\ IsErr(result.value)
               /\ result.value.error.kind = "DivisionByZero"
               /\ result.value.error.span =
                      [offset |-> expr.span.start,
                       length |-> expr.span.end - expr.span.start]
               /\ result.value.error.divisor_span =
                      [offset |-> expr.right.span.start,
                       length |-> expr.right.span.end - expr.right.span.start]

\* `x / (5 - 5)` with x a number: the divisor is a computed zero
C6_Witness ==
    /\ phase = "evaluated"
    /\ expr.operator = "Divide"
    /\ expr.left.type = "Identifier"
    /\ expr.right.type = "Binary"
    /\ evaluate_expression(Self, expr.right) = Ok(Number(FZero))
    /\ IsErr(result.value)
    /\ result.value.error.kind = "DivisionByZero"
    /\ result.value.error.divisor_span # result.value.error.span

(***************************************************************************)
(* Properties of the argument binder (specification SpecBind)              *)
(***************************************************************************)
\* the parameters a call can fill one value each
Slots(c) ==
    IF c.sig.parameters.spec = "Fixed" THEN c.sig.parameters.params
    ELSE c.sig.parameters.required

\* the names a keyword argument may use
DeclaredNames(c) ==
    {Slots(c)[i] : i \in 1..Len(Slots(c))} \cup
    (IF c.sig.parameters.spec = "Fixed" THEN {}
     ELSE {c.sig.parameters.variadic_name})

\* keyword argument j names a slot a positional argument or an earlier
\* keyword argument has filled
NamesFilledSlot(c, j) ==
    \E i \in 1..Len(Slots(c)) :
        /\ Slots(c)[i] = c.kwargs[j].name
        /\ \/ i <= Len(c.args)
           \/ \E k \in 1..(j - 1) : c.kwargs[k].name = c.kwargs[j].name

NamesNoParameter(c, j) == c.kwargs[j].name \notin DeclaredNames(c)

IsFixed(c) == c.sig.parameters.spec = "Fixed"

IsArgumentError(r, what, function_name, parameter_name) ==
    /\ IsErr(r)
    /\ r.error.kind = "FunctionArgumentError"
    /\ r.error.function_name = function_name
    /\ r.error.message = <<what, parameter_name>>

\* the value the call supplies for the i-th parameter
Supplied(c, i) ==
    IF i <= Len(c.args) THEN c.args[i].value
    ELSE c.kwargs[CHOOSE j \in 1..Len(c.kwargs) : c.kwargs[j].name = Slots(c)[i]].value

\* the first k parameters positionally, each of the others by one keyword
SuppliesEachOnce(c) ==
    /\ IsFixed(c)
    /\ Len(c.args) <= Len(Slots(c))
    /\ Len(c.kwargs) = Len(Slots(c)) - Len(c.args)
    /\ {c.kwargs[j].name : j \in 1..Len(c.kwargs)} =
           {Slots(c)[i] : i \in (Len(c.args) + 1)..Len(Slots(c))}

\* C7: a call to a Fixed signature that supplies each parameter once, the
\* first k positionally and the others by keyword in any order, hands the
\* implementation [v(p1), ..., v(pN)] in declared order; max and min then
\* give the larger and the smaller of v(p1) and v(p2).
C7_FixedBindingIndependentOfCallForm ==
    (phase = "called" /\ SuppliesEachOnce(call)) =>
        LET v == [i \in 1..Len(Slots(call)) |-> Supplied(call, i)]
        IN  /\ invoked.some
            /\ invoked.value.args = v
            /\ call.sig.name \in {"max", "fixed3"} =>
                   result.value =
                       Ok(Number(FromInt(IF v[1].i >= v[2].i THEN v[1].i ELSE v[2].i)))
            /\ call.sig.name = "min" =>
                   result.value =
                       Ok(Number(FromInt(IF v[1].i <= v[2].i THEN v[1].i ELSE v[2].i)))

\* fixed3(1, c=.., b=..): keywords in the reverse of the declared order
C7_Witness ==
    /\ phase = "called"
    /\ SuppliesEachOnce(call)
    /\ call.sig.name = "fixed3"
    /\ Len(call.args) = 1
    /\ call.kwargs[1].name = "c"
    /\ call.kwargs[2].name = "b"
    /\ invoked.some
    /\ IsOk(result.value)

\* C8, as stated: in a call to a Fixed signature, a keyword argument naming
\* a slot that a positional argument or an earlier same-named keyword has
\* filled yields the duplicate-parameter error naming the function, and the
\* implementation is not invoked.
C8_DuplicateParameterDetection ==
    (phase = "called" /\ IsFixed(call) /\ Len(call.args) <= Len(Slots(call))) =>
        \A j \in 1..Len(call.kwargs) :
            NamesFilledSlot(call, j) =>
                /\ IsErr(result.value)
                /\ result.value.error.kind = "FunctionArgumentError"
                /\ result.value.error.function_name = call.sig.name
                /\ result.value.error.message[1] = "duplicate"
                /\ invoked = None

\* C8, amended: such a call always fails without invoking the
\* implementation; the error is the duplicate-parameter error, naming the
\* function and the parameter, when the call has no more positional
\* arguments than parameters and every earlier keyword argument names a
\* declared parameter not yet filled.
C8_DuplicateParameterFirstOffence ==
    (phase = "called" /\ IsFixed(call)) =>
        \A j \in 1..Len(call.kwargs) :
            NamesFilledSlot(call, j) =>
                /\ IsErr(result.value)
                /\ invoked = None
                /\ (/\ Len(call.args) <= Len(Slots(call))
                    /\ \A k \in 1..(j - 1) :
                           ~NamesNoParameter(call, k) /\ ~NamesFilledSlot(call, k))
                   => IsArgumentError(result.value, "duplicate", call.sig.name,
                                      call.kwargs[j].name)

\* max(1, a=..): the keyword names the slot the positional argument filled
C8_Witness ==
    /\ phase = "called"
    /\ call.sig.name = "max"
    /\ Len(call.args) = 1
    /\ Len(call.kwargs) = 1
    /\ call.kwargs[1].name = "a"
    /\ IsArgumentError(result.value, "duplicate", "max", "a")
    /\ invoked = None

IsRegistered(c) ==
    c.sig.name \in DOMAIN functions /\ functions[c.sig.name] = c.sig

C10_MissingParameterReporting ==
    (/\ phase = "called"
     /\ IsFixed(call)
     /\ Len(call.args) <= Len(Slots(call))
     /\ \A j \in 1..Len(call.kwargs) :
            ~NamesNoParameter(call, j) /\ ~NamesFilledSlot(call, j)) =>
        LET unfilled ==
                {i \in (Len(call.args) + 1)..Len(Slots(call)) :
                    \A j \in 1..Len(call.kwargs) : call.kwargs[j].name # Slots(call)[i]}
        IN  unfilled # {} =>
                /\ IsArgumentError(result.value, "missing", call.sig.name,
                       Slots(call)[CHOOSE i \in unfilled : \A k \in unfilled : i <= k])
                /\ invoked = None

\* fixed3(b=..) leaves a and c unfilled and names a
C10_Witness ==
    /\ phase = "called"
    /\ call.sig.name = "fixed3"
    /\ Len(call.args) = 0
    /\ Len(call.kwargs) = 1
    /\ call.kwargs[1].name = "b"
    /\ IsArgumentError(result.value, "missing", "fixed3", "a")

\* the values of the keyword arguments named after the variadic group, in call order
VariadicKeywordValues(c) ==
    LET named == SelectSeq(c.kwargs,
                           LAMBDA kw : kw.name = c.sig.parameters.variadic_name)
    IN  [j \in 1..Len(named) |-> named[j].value]

\* the positional arguments beyond the required parameters, in call order
OverflowValues(c) ==
    [i \in 1..(IF Len(c.args) > Len(Slots(c)) THEN Len(c.args) - Len(Slots(c)) ELSE 0) |->
        c.args[Len(Slots(c)) + i].value]

\* C11: a call to a Variadic signature that reaches the implementation hands
\* it the values of r1..rR in declared order, then the overflow positional
\* arguments in call order, then the keyword values of the variadic group in
\* call order, whatever the mix and order of the keyword arguments.
C11_VariadicArgumentOrder ==
    (phase = "called" /\ ~IsFixed(call) /\ invoked.some) =>
        invoked.value.args =
            [i \in 1..Len(Slots(call)) |-> Supplied(call, i)]
                \o OverflowValues(call) \o VariadicKeywordValues(call)

\* the required slots no positional and no keyword argument of the call fills
UnfilledSlots(c) ==
    {i \in (Len(c.args) + 1)..Len(Slots(c)) :
        \A j \in 1..Len(c.kwargs) : c.kwargs[j].name # Slots(c)[i]}

\* C12: a call to a Variadic signature with R required parameters and fewer
\* than R arguments fails with wrong-argument-count (expected R, actual the
\* number supplied); the implementation is reached only with every required
\* slot filled; and a call with at least R arguments, valid keywords and an
\* unfilled required slot fails with the missing-parameter error naming the
\* first unfilled required parameter.
C12_VariadicRequiredSlots ==
    (phase = "called" /\ ~IsFixed(call)) =>
        LET R == Len(Slots(call))
            supplied == Len(call.args) + Len(call.kwargs)
        IN  /\ supplied < R =>
                   /\ IsErr(result.value)
                   /\ result.value.error.kind = "WrongArgumentCount"
                   /\ result.value.error.function_name = call.sig.name
                   /\ result.value.error.expected = R
                   /\ result.value.error.actual = supplied
                   /\ invoked = None
            /\ invoked.some => UnfilledSlots(call) = {}
            /\ (/\ supplied >= R
                /\ UnfilledSlots(call) # {}
                /\ \A j \in 1..Len(call.kwargs) :
                       ~NamesNoParameter(call, j) /\ ~NamesFilledSlot(call, j))
               => IsArgumentError(result.value, "missing", call.sig.name,
                      Slots(call)[CHOOSE i \in UnfilledSlots(call) :
                                      \A k \in UnfilledSlots(call) : i <= k])

(***************************************************************************)
(* Properties of the path of a source text (specification SpecSource)      *)
(***************************************************************************)
Parsing == phase \notin {"tokenizing", "tokenized", "lex_failed"}

\* the source is one call: at token k (counted from 1) an argument starts in
\* the form `identifier = ...`
KeywordForm(toks, k) ==
    /\ k + 1 <= Len(toks)
    /\ toks[k].token_type.type = "Identifier"
    /\ toks[k + 1].token_type.type = "Assign"

\* where the arguments of the call start, from the one at token k on: the next
\* one follows the comma that ends this argument's expression
RECURSIVE ArgumentStarts(_, _)
ArgumentStarts(toks, k) ==
    LET value == parse_expression(toks, IF KeywordForm(toks, k) THEN k + 1 ELSE k - 1)
    IN  IF IsOk(value.result) /\ is_token(current_token(toks, value.position), "Comma")
        THEN <<k>> \o ArgumentStarts(toks, value.position + 2)
        ELSE <<k>>

IsCallSource(toks) ==
    /\ Len(toks) >= 3
    /\ toks[1].token_type.type = "Identifier"
    /\ toks[2].token_type.type = "LeftParen"
    /\ toks[3].token_type.type # "RightParen"

PositionalAfterKeyword(toks, starts) ==
    \E i, j \in 1..Len(starts) :
        i < j /\ KeywordForm(toks, starts[i]) /\ ~KeywordForm(toks, starts[j])

\* C13: when, in the argument list of a call, an argument that is not of the
\* form `identifier = expr` follows a keyword argument, parse fails with an
\* UnexpectedToken error whose expected set contains "keyword argument"; no
\* program is produced and nothing is evaluated.
C13_PositionalAfterKeywordRejected ==
    (Parsing /\ IsCallSource(tokens)
        /\ PositionalAfterKeyword(tokens, ArgumentStarts(tokens, 3))) =>
            /\ phase = "parse_failed"
            /\ result.value.error.kind = "UnexpectedToken"
            /\ \E k \in 1..Len(result.value.error.expected) :
                  result.value.error.expected[k] = "keyword argument"
            /\ program = <<>>
            /\ calls = 0
            /\ environment = EmptyEnvironment

C13_Witness ==
    /\ phase = "parse_failed"
    /\ IsCallSource(tokens)
    /\ PositionalAfterKeyword(tokens, ArgumentStarts(tokens, 3))
    /\ \E k \in 4..Len(tokens) :
          /\ tokens[k].token_type.type = "Identifier"
          /\ tokens[k + 1].token_type.type = "RightParen"
          /\ SourceSpan(tokens[k].span) = result.value.error.span

(***************************************************************************)
(* Properties of evaluate_program, continued (specification Spec)          *)
(***************************************************************************)
\* v is the value of stmt, read in the state the program leaves behind: an
\* expression statement changes no binding, so its expression still has the
\* value it had; an assignment's value is what its target is now bound to
IsValueOfStatement(stmt, v) ==
    IF stmt.type = "Expression"
    THEN evaluate_expression(Self, stmt.expr) = Ok(v)
    ELSE get(environment, stmt.name) = Some(v)

\* C14: when every statement succeeds evaluate_program returns Some(v), v being
\* the value of the last statement -- the expression's value, or the value
\* now bound to the target of an assignment or compound assignment -- and it
\* returns None exactly when the program has no statements.
C14_ProgramResult ==
    (phase = "returned" /\ result.some /\ IsOk(result.value)) =>
        /\ (~result.value.value.some) <=> (program = <<>>)
        /\ program # <<>> =>
              /\ result.value.value.some
              /\ IsValueOfStatement(program[Len(program)], result.value.value.value)

C14_Witness ==
    /\ phase = "returned"
    /\ result.some
    /\ IsOk(result.value)
    /\ Len(program) = 2
    /\ program[1].type = "Assignment"
    /\ program[2].type = "CompoundAssignment"
    /\ result.value.value = Some(Number(FromInt(15)))

(***************************************************************************)
(* Properties of the path of a source text, continued (SpecSource)         *)
(***************************************************************************)
\* C15: when tokenize succeeds -- on the empty and on a whitespace-only input
\* too -- the sequence it returns is not empty, its last token is Eof and no
\* earlier token is.
C15_SingleEofLast ==
    (phase \notin {"tokenizing", "lex_failed"}) =>
        /\ tokens # <<>>
        /\ tokens[Len(tokens)].token_type.type = "Eof"
        /\ \A k \in 1..(Len(tokens) - 1) : tokens[k].token_type.type # "Eof"

C15_Witness ==
    /\ phase = "tokenized"
    /\ lexer.input = <<" ", " ">>
    /\ tokens = <<Token(Plain("Eof"), Span(2, 3))>>

\* the error points at the Eof token: the parser's current token was Eof, the
\* input was exhausted (no other token has the span n..n+1 of a source of n
\* characters)
FailedAtEof ==
    /\ phase = "parse_failed"
    /\ result.value.error.span = SourceSpan(tokens[Len(tokens)].span)

\* C16: when parse fails because the input is exhausted the error is
\* UnexpectedEof with a non-empty expected set; an UnexpectedToken error is
\* produced only for a token that is not Eof.
C16_EndOfInputIsUnexpectedEof ==
    (phase = "parse_failed") =>
        /\ result.value.error.kind \in {"UnexpectedEof", "UnexpectedToken"}
        /\ result.value.error.kind = "UnexpectedEof" => result.value.error.expected # <<>>
        /\ result.value.error.kind = "UnexpectedToken" => ~FailedAtEof

\* the binding strength the grammar gives a binary operator, 1 the loosest
Precedence(operator) ==
    CASE operator = "Or" -> 1
      [] operator = "And" -> 2
      [] operator \in {"Equal", "NotEqual"} -> 3
      [] operator \in {"Less", "Greater", "LessEqual", "GreaterEqual"} -> 4
      [] operator \in {"In", "NotIn"} -> 5
      [] operator \in {"Add", "Subtract"} -> 6
      [] operator \in {"Multiply", "Divide"} -> 7

\* the tokens a binary operator is written with
OperatorWords(operator) ==
    CASE operator = "Add" -> <<"Plus">>
      [] operator = "Subtract" -> <<"Minus">>
      [] operator = "NotIn" -> <<"Not", "In">>
      [] OTHER -> <<operator>>

\* a token as a word: an identifier is its name, any other token its type
Word(token) ==
    IF token.token_type.type = "Identifier" THEN token.token_type.name
    ELSE token.token_type.type

\* the words of the tokens before Eof
Words(toks) == [k \in 1..(Len(toks) - 1) |-> Word(toks[k])]

ExpressionWords ==
    {"a", "b", "c", "Integer", "Or", "And", "Equal", "NotEqual", "Less", "Greater",
     "LessEqual", "GreaterEqual", "In", "Not", "Plus", "Minus", "Multiply", "Divide",
     "LeftBracket", "RightBracket"}

\* the words of an expression read from left to right, as it is written
\* without parentheses
RECURSIVE Flatten(_)
RECURSIVE FlattenElements(_)

\* the words of the elements of a list, separated by commas
FlattenElements(elements) ==
    IF elements = <<>> THEN <<>>
    ELSE IF Len(elements) = 1 THEN Flatten(elements[1])
    ELSE Flatten(elements[1]) \o <<"Comma">> \o FlattenElements(Tail(elements))

Flatten(e) ==
    CASE e.type = "Identifier" -> <<e.name>>
      [] e.type = "Binary" ->
            Flatten(e.left) \o OperatorWords(e.operator) \o Flatten(e.right)
      [] e.type = "Unary" -> <<e.operator>> \o Flatten(e.operand)
      [] e.type = "Index" ->
            Flatten(e.object) \o <<"LeftBracket">> \o Flatten(e.index)
                \o <<"RightBracket">>
      [] e.type = "List" ->
            <<"LeftBracket">> \o FlattenElements(e.elements) \o <<"RightBracket">>
      [] OTHER -> <<e.type>>

\* the grouping the grammar prescribes: a left operand binds at least as
\* tightly as its parent (left to right within a layer), a right operand
\* strictly tighter, the operand of a unary operator is a postfix expression
\* and the object of an index is a primary or an index
RECURSIVE Grouped(_)
Grouped(e) ==
    CASE e.type = "Binary" ->
            /\ e.left.type = "Binary" => Precedence(e.left.operator) >= Precedence(e.operator)
            /\ e.right.type = "Binary" => Precedence(e.right.operator) > Precedence(e.operator)
            /\ Grouped(e.left)
            /\ Grouped(e.right)
      [] e.type = "Unary" -> e.operand.type \notin {"Binary", "Unary"} /\ Grouped(e.operand)
      [] e.type = "Index" ->
            e.object.type \notin {"Binary", "Unary"} /\ Grouped(e.object) /\ Grouped(e.index)
      [] e.type = "List" -> \A k \in 1..Len(e.elements) : Grouped(e.elements[k])
      [] OTHER -> TRUE

RECURSIVE FlattenAll(_)
FlattenAll(statements) ==
    IF statements = <<>> THEN <<>>
    ELSE Flatten(statements[1].expr) \o FlattenAll(Tail(statements))

\* the words from the k-th on are operands separated by binary operators
RECURSIVE Alternates(_, _)
Alternates(words, k) ==
    /\ k <= Len(words)
    /\ words[k] \in {"a", "b", "c"}
    /\ \/ k = Len(words)
       \/ /\ words[k + 1] \in {"Or", "And", "Equal", "NotEqual", "Less", "Greater",
                               "LessEqual", "GreaterEqual", "In", "Plus", "Minus",
                               "Multiply", "Divide"}
          /\ Alternates(words, k + 2)
       \/ /\ k + 2 <= Len(words)
          /\ words[k + 1] = "Not"
          /\ words[k + 2] = "In"
          /\ Alternates(words, k + 3)

\* C18: binary operators bind, from loosest to tightest, as or < and <
\* equality < comparison < membership < additive < multiplicative < unary
\* prefix < postfix indexing, and the operators of one layer group from left to
\* right: an expression written without parentheses is parsed into the tree
\* that reads back as the tokens in their order and is grouped by these
\* strengths, so `a or b and c` is `a or (b and c)` and `a - b - c` is
\* `(a - b) - c`.
C18_OperatorPrecedence ==
    (Parsing /\ \A k \in 1..(Len(tokens) - 1) : Word(tokens[k]) \in ExpressionWords) =>
        /\ phase # "parse_failed" =>
              /\ \A k \in 1..Len(program) :
                    program[k].type = "Expression" /\ Grouped(program[k].expr)
              /\ FlattenAll(program) = Words(tokens)
        /\ Alternates(Words(tokens), 1) => phase # "parse_failed" /\ Len(program) = 1

\* `a + b * c` has been parsed as `a + (b * c)`
C18_Witness ==
    /\ Parsing
    /\ Words(tokens) = <<"a", "Plus", "b", "Multiply", "c">>
    /\ Len(program) = 1
    /\ program[1].expr.operator = "Add"
    /\ program[1].expr.left.type = "Identifier"
    /\ program[1].expr.right.type = "Binary"
    /\ program[1].expr.right.operator = "Multiply"

\* the statement about to be evaluated is an expression statement of this type
Evaluating(type) ==
    /\ phase = "running"
    /\ pc <= Len(program)
    /\ program[pc].type = "Expression"
    /\ program[pc].expr.type = type

\* the step fails with an error satisfying the named kind
FailsWith(kind) ==
    /\ phase' = "returned"
    /\ result'.some
    /\ IsErr(result'.value)
    /\ result'.value.error.kind = kind

\* what the step does with a list `items` indexed by the value `index`
ListIndexed(items, index) ==
    IF index.kind = "Integer"
    THEN IF 0 <= index.i /\ index.i < Len(items)
         THEN /\ last_value' = Some(items[index.i + 1])
              /\ pc' = pc + 1
              /\ phase' = "running"
         ELSE /\ FailsWith("IndexOutOfBounds")
              /\ result'.value.error.index = [wrapped |-> FALSE, value |-> index.i]
              /\ result'.value.error.length = Len(items)
    ELSE FailsWith("CollectionOperationError")

IndexedStep(object, index) ==
    (IsOk(object) /\ IsOk(index) /\ object.value.kind = "List") =>
        ListIndexed(object.value.items, index.value)

\* C17: a List of length n indexed by an Integer i gives element i (counted
\* from 0) when 0 <= i < n and otherwise fails with IndexOutOfBounds carrying
\* index i and length n; indexed by a value that is not an Integer, a Number
\* produced by arithmetic included, it fails with a collection-operation error.
C17_ListIndexing ==
    [][Evaluating("Index") =>
          IndexedStep(evaluate_expression(Self, program[pc].expr.object),
                      evaluate_expression(Self, program[pc].expr.index))]_vars

\* `x = [1, 2.5]; x[5]` has failed with index 5 and length 2
C17_Witness ==
    /\ phase = "returned"
    /\ Len(program) = 2
    /\ pc = 2
    /\ program[2].type = "Expression"
    /\ program[2].expr.type = "Index"
    /\ program[2].expr.object.type = "Identifier"
    /\ result = Some(Err(index_out_of_bounds("list", [wrapped |-> FALSE, value |-> 5], 2,
                                             program[2].expr.span)))

\* the top of the expression is `+ - * /` or a unary `-` or `+`
IsArithmetic(e) ==
    \/ e.type = "Binary" /\ e.operator \in {"Add", "Subtract", "Multiply", "Divide"}
    \/ e.type = "Unary" /\ e.operator \in {"Minus", "Plus"}

\* the step went on to the next statement with a Number as the value
YieldsNumber ==
    /\ last_value'.some
    /\ last_value'.value.kind = "Number"

\* a step of an arithmetic expression statement
ArithmeticStep(e) ==
    /\ pc' = pc + 1 => YieldsNumber
    /\ (e.type = "Binary" /\ e.left.type = "Integer" /\ e.right.type = "Integer"
            /\ e.operator = "Add")
          => last_value' = Some(Number(FromInt(e.left.i64 + e.right.i64)))

\* a step of a compound assignment
CompoundStep(stmt) ==
    IF pc' = pc + 1
    THEN /\ YieldsNumber
         /\ environment'[stmt.name] = last_value'.value
    ELSE /\ phase' = "returned"
         /\ environment' = environment

\* C19: a successful `+ - * /`, unary `-` or `+`, or compound assignment
\* yields a Number, also when every operand is an Integer (`5 + 5` is Number
\* 10), and the compound assignment stores that Number in the variable; a
\* failed compound assignment leaves the environment as it was, so an Integer
\* variable stays an Integer.
C19_ArithmeticYieldsNumber ==
    [][(phase = "running" /\ pc <= Len(program)) =>
          /\ (program[pc].type = "Expression" /\ IsArithmetic(program[pc].expr)) =>
                ArithmeticStep(program[pc].expr)
          /\ program[pc].type = "CompoundAssignment" => CompoundStep(program[pc])]_vars

\* after `x = 10; x += 5` the variable x holds Number 15
C19_Witness ==
    /\ phase = "running"
    /\ Len(program) = 2
    /\ pc = 3
    /\ program[1].type = "Assignment"
    /\ program[1].value.type = "Integer"
    /\ program[1].value.i64 = 10
    /\ program[2].type = "CompoundAssignment"
    /\ program[2].operator = "Add"
    /\ program[2].value.type = "Integer"
    /\ environment["x"] = Number(FromInt(15))

\* the argument expressions of a call in the order of the claim: the
\* positional ones from left to right, then the keyword ones from left to right
ArgumentExpressions(e) == e.args \o [j \in 1..Len(e.kwargs) |-> e.kwargs[j].value]

\* the arguments whose evaluation fails in the current environment
FailingArguments(operands) ==
    {i \in 1..Len(operands) : ~IsOk(evaluate_expression(Self, operands[i]))}

First(indexes) == CHOOSE i \in indexes : \A j \in indexes : i <= j

\* a step of a call statement with these argument expressions
CallStep(e, operands, failing) ==
    IF failing # {}
    THEN /\ phase' = "returned"
         /\ result' = Some(evaluate_expression(Self, operands[First(failing)]))
    ELSE /\ e.name \notin DOMAIN functions => FailsWith("UndefinedFunction")
         /\ e.name \in DOMAIN functions => ~FailsWith("UndefinedFunction")

\* C20: the positional argument expressions of a call are evaluated from
\* left to right, then the keyword ones from left to right, before the name
\* is looked up and before binding: the call fails with the error of the
\* first argument expression that fails, whether the function is registered
\* or not and whether the arguments would bind or not, and it fails with
\* undefined-function only when every argument has been evaluated.
C20_ArgumentsBeforeLookup ==
    [][Evaluating("FunctionCall") =>
          CallStep(program[pc].expr, ArgumentExpressions(program[pc].expr),
                   FailingArguments(ArgumentExpressions(program[pc].expr)))]_vars

\* `f(u, c = (1 / 0))`, f unregistered, has failed with the error of u
C20_Witness ==
    /\ phase = "returned"
    /\ Len(program) = 1
    /\ pc = 1
    /\ program[1].type = "Expression"
    /\ program[1].expr.type = "FunctionCall"
    /\ program[1].expr.name = "f"
    /\ Len(program[1].expr.args) = 1
    /\ Len(program[1].expr.kwargs) = 1
    /\ program[1].expr.kwargs[1].name = "c"
    /\ program[1].expr.kwargs[1].value.type = "Binary"
    /\ result.value.tag = "Err"
    /\ result.value.error.kind = "UndefinedVariable"

\* the binary expression has been evaluated to this result
OperandsFirst(left_val, right_val) ==
    /\ ~IsOk(left_val) => result = Some(left_val)
    /\ (IsOk(left_val) /\ ~IsOk(right_val)) => result = Some(right_val)

C22_CompoundOnUndefined ==
    [][(/\ phase = "running"
        /\ pc <= Len(program)
        /\ program[pc].type = "CompoundAssignment"
        /\ program[pc].name \notin DOMAIN environment) =>
          /\ FailsWith("UndefinedVariable")
          /\ result'.value.error.name = program[pc].name
          /\ program[pc].name \notin DOMAIN environment']_vars

\* `x /= (1 / 0)` with x undefined has failed with the undefined variable x
C22_Witness ==
    /\ phase = "returned"
    /\ Len(program) = 1
    /\ program[1].type = "CompoundAssignment"
    /\ program[1].name = "x"
    /\ program[1].value.type = "Binary"
    /\ program[1].value.operator = "Divide"
    /\ result = Some(Err(undefined_variable("x", program[1].span, {})))
    /\ environment = EmptyEnvironment

\* the statement about to be evaluated is `x /= e` with x a number and e zero
DividesByZero(stmt, rhs_value) ==
    /\ stmt.type = "CompoundAssignment"
    /\ stmt.operator = "Divide"
    /\ stmt.name \in DOMAIN environment
    /\ as_number(environment[stmt.name]).some
    /\ IsOk(rhs_value)
    /\ as_number(rhs_value.value) = Some(FZero)

\* the kind of the error is right: DivisionByZero, not CompoundAssignmentError
C23_CompoundDivisionKind ==
    [][(phase = "running" /\ pc <= Len(program)
            /\ DividesByZero(program[pc], evaluate_expression(Self, program[pc].value)))
          => FailsWith("DivisionByZero")]_vars

\* C23: `x /= e` with x numeric and e evaluating to zero fails with a
\* DivisionByZero error whose span is that of the operation and whose divisor
\* span is exactly the span of e.
C23_CompoundDivisorSpan ==
    [][(phase = "running" /\ pc <= Len(program)
            /\ DividesByZero(program[pc], evaluate_expression(Self, program[pc].value)))
          => /\ FailsWith("DivisionByZero")
             /\ result'.value.error.divisor_span = SourceSpan(program[pc].value.span)]_vars

\* the end of the maximal run of digits and dots of the input from offset k
RECURSIVE RunEnd(_, _)
RunEnd(input, k) ==
    IF k < Len(input) /\ input[k + 1] \in Digits \cup {"."} THEN RunEnd(input, k + 1)
    ELSE k

Dots(input, from, to) == Cardinality({k \in (from + 1)..to : input[k] = "."})

\* the run [from, to) of the input is not a numeric literal: it holds a
\* second dot or it ends in a dot
MalformedRun(input, from, to) ==
    \/ Dots(input, from, to) >= 2
    \/ input[to] = "."

\* a step of tokenize at a numeric run [from, to) of the input
NumericRunStep(input, from, to) ==
    IF MalformedRun(input, from, to)
    THEN /\ phase' = "lex_failed"
         /\ result' = Some(Err(malformed_number(collect(SubSeq(input, from + 1, to)),
                                                Span(from, to))))
         /\ tokens' = tokens
    ELSE /\ Len(tokens') = Len(tokens) + 1
         /\ tokens'[Len(tokens')].span = Span(from, to)
         /\ tokens'[Len(tokens')].token_type.type =
               IF Dots(input, from, to) = 1 THEN "Number" ELSE "Integer"

\* C24: when, after whitespace, the input continues with a digit, the
\* maximal run of digits and dots from that digit is read as one: if it holds
\* a second dot, or ends in a dot, tokenize fails with MalformedNumber whose
\* text and span are the whole run and no token of the run is emitted;
\* otherwise the run is one Integer or Number token.
C24_MalformedNumberIsWhole ==
    [][(/\ phase = "tokenizing"
        /\ current_char(skip_whitespace(lexer)).some
        /\ is_ascii_digit(current_char(skip_whitespace(lexer)).value)) =>
          NumericRunStep(lexer.input, skip_whitespace(lexer).position,
                         RunEnd(lexer.input, skip_whitespace(lexer).position))]_vars

\* `+7.7.` has failed at the run `7.7.`, span [1, 5) -- or, in four
\* characters, `+7..` at `7..`, span [1, 4) -- after the token of `+` only
C24_Witness ==
    /\ phase = "lex_failed"
    /\ Len(lexer.input) >= 4
    /\ lexer.input[1] = "+"
    /\ Len(tokens) = 1
    /\ result = Some(Err(malformed_number(collect(Tail(lexer.input)),
                                          Span(1, Len(lexer.input)))))
    /\ Dots(lexer.input, 1, Len(lexer.input)) = 2

IsContainer(v) == v.kind \in {"List", "Dictionary"}

NumericValue(v) == IF v.kind = "Integer" THEN FromInt(v.i) ELSE v.n

\* equality as the language defines it: by numeric value between Integer and
\* Number, by content between two Booleans or two Strings, never otherwise
SameValue(l, r) ==
    CASE IsNumeric(l) /\ IsNumeric(r) -> NumericValue(l) = NumericValue(r)
      [] l.kind = "Boolean" /\ r.kind = "Boolean" -> l.b = r.b
      [] l.kind = "String" /\ r.kind = "String" -> l.s = r.s
      [] OTHER -> FALSE

\* both operands evaluated, to l and r: what the expression has given
EqualityResult(operator, l, r) ==
    /\ operator = "Equal" => result = Some(Ok(Boolean(SameValue(l, r))))
    /\ operator = "NotEqual" => result = Some(Ok(Boolean(~SameValue(l, r))))
    /\ (operator \in {"Equal", "NotEqual"} /\ (IsContainer(l) \/ IsContainer(r))) =>
          result = Some(Ok(Boolean(operator = "NotEqual")))
    /\ (operator = "In" /\ IsContainer(l) /\ r.kind = "List") =>
          result = Some(Ok(Boolean(FALSE)))

EqualityOf(operator, left_val, right_val) ==
    (IsOk(left_val) /\ IsOk(right_val)) =>
        EqualityResult(operator, left_val.value, right_val.value)

Member(v, c) ==
    \/ c.kind = "List" /\ \E k \in 1..Len(c.items) : values_equal(v, c.items[k])
    \/ c.kind = "Dictionary" /\ v.kind = "String" /\ v.s \in DOMAIN c.dict

\* membership of v in c is defined
MembershipDefined(v, c) ==
    \/ c.kind = "List"
    \/ c.kind = "Dictionary" /\ v.kind = "String"

\* both operands evaluated, to v and c: what `v in c` or `v not in c` has given
MembershipResult(operator, v, c) ==
    IF MembershipDefined(v, c)
    THEN result = Some(Ok(Boolean(IF operator = "In" THEN Member(v, c)
                                                      ELSE ~Member(v, c))))
    ELSE /\ IsErr(result.value)
         /\ result.value.error.kind = "CollectionOperationError"

MembershipOf(operator, left_val, right_val) ==
    (operator \in {"In", "NotIn"} /\ IsOk(left_val) /\ IsOk(right_val)) =>
        MembershipResult(operator, left_val.value, right_val.value)

\* C26: `v in c` is Boolean true exactly when c is a List with an element
\* equal to v under values_equal, or c is a Dictionary and v a String that is
\* one of its keys, and Boolean false otherwise; `v not in c` is its negation;
\* when c is neither List nor Dictionary, or c is a Dictionary and v is not a
\* String, both fail with a collection-operation error.
C26_Membership ==
    phase = "evaluated" =>
        MembershipOf(expr.operator, evaluate_expression(Self, expr.left),
                     evaluate_expression(Self, expr.right))

\* `"hi" not in {"hi": 0}` has been evaluated to false
C26_Witness ==
    /\ phase = "evaluated"
    /\ expr.operator = "NotIn"
    /\ expr.left.type = "String"
    /\ expr.left.str = "hi"
    /\ expr.right.type = "Dictionary"
    /\ Len(expr.right.pairs) = 1
    /\ expr.right.pairs[1].key = "hi"
    /\ result = Some(Ok(Boolean(FALSE)))

\* the environment without a binding of `max`
WithoutMax(env) == [n \in DOMAIN env \ {"max"} |-> env[n]]

\* two results agree: both values, and the same one, or both errors of one kind
Agree(a, b) ==
    /\ a.tag = b.tag
    /\ IsOk(a) => a = b
    /\ IsErr(a) => a.error.kind = b.error.kind

\* the frame of the statement stmt evaluated in this step
StatementFrame(stmt) ==
    IF stmt.type = "Expression"
    THEN environment' = environment
    ELSE /\ DOMAIN environment' \subseteq DOMAIN environment \cup {stmt.name}
         /\ \A n \in DOMAIN environment \ {stmt.name} : environment'[n] = environment[n]
         /\ pc' = pc => environment' = environment

\* a call of max gives what it gives where no variable is named max
CallIgnoresVariable(e) ==
    (e.type = "FunctionCall" /\ e.name = "max") =>
        Agree(evaluate_expression(Self, e),
              evaluate_expression([environment |-> WithoutMax(environment),
                                   functions |-> get_builtin_functions], e))

\* C27: across the evaluate_program calls on one Evaluator an expression
\* statement, successful or failing, leaves the environment as it was; an
\* assignment or compound assignment changes at most the binding of its own
\* target, and nothing when it fails; no step removes a variable; the
\* function registry never changes, and a variable named max does not change
\* what a call of max gives.
C27_StatementFrame ==
    [][/\ functions' = functions
       /\ DOMAIN environment \subseteq DOMAIN environment'
       /\ IF phase = "running" /\ pc <= Len(program)
          THEN /\ StatementFrame(program[pc])
               /\ program[pc].type = "Expression" => CallIgnoresVariable(program[pc].expr)
          ELSE environment' = environment]_vars

\* a second evaluate_program call: after `max = 10` and `x = 10` in the
\* first, `max(x, 1)` has given 10 and both variables are as they were
C27_Witness ==
    /\ calls = 2
    /\ phase = "running"
    /\ pc = 2
    /\ program[1].type = "Expression"
    /\ program[1].expr.type = "FunctionCall"
    /\ last_value = Some(Number(FromInt(10)))
    /\ DOMAIN environment = {"x", "max"}
    /\ environment["max"] = Integer(10)
    /\ environment["x"] = Integer(10)
    /\ functions = get_builtin_functions

\* the call has returned a BcclResult: Ok(value) or Err(error)
Returned == result.some /\ (IsOk(result.value) \/ IsErr(result.value))

\* the part of the claim about Fixed signatures: the call returns, and max and
\* min are invoked with exactly two arguments
C28_FixedBinderTotality ==
    (phase = "called" /\ call.sig.parameters.spec = "Fixed") =>
        /\ Returned
        /\ (invoked.some /\ call.sig.name \in {"max", "min"}) =>
              Len(invoked.value.args) = 2 /\ Len(invoked.value.spans) = 2

\* C28: for every signature made with new_fixed or new_variadic, with any
\* number of required parameters, and every combination and order of
\* positional and keyword arguments, call_with_spans returns Ok(value) or
\* Err(error) -- it never indexes or inserts outside its argument vectors --
\* and max and min are invoked with exactly two arguments.
C28_BinderTotality ==
    phase = "called" =>
        /\ Returned
        /\ (invoked.some /\ call.sig.name \in {"max", "min"}) =>
              Len(invoked.value.args) = 2 /\ Len(invoked.value.spans) = 2

\* a step of tokenize: next_token advances, or returns Eof at the end of the
\* input, or fails; the position never passes the end of the input
TokenizeProgress ==
    /\ \/ lexer'.position > lexer.position
       \/ phase' = "tokenized"
       \/ phase' = "lex_failed"
    /\ lexer'.position <= Len(lexer.input)
    /\ phase' = "tokenized" => lexer'.position = Len(lexer.input)

\* a successful parse_statement or parse_expression from the token at pos
\* ends after it, at the Eof token at the latest
ConsumesFrom(parsed, pos, eof) ==
    IsOk(parsed.result) => parsed.position > pos /\ parsed.position <= eof

\* the token position where the statement loop of parse stops, and the
\* number of statements it has parsed when it does
RECURSIVE StatementLoop(_, _, _)
StatementLoop(toks, pos, count) ==
    IF is_token(current_token(toks, pos), "Eof") THEN [position |-> pos, count |-> count]
    ELSE IF IsOk(parse_statement(toks, pos).result)
    THEN StatementLoop(toks, parse_statement(toks, pos).position, count + 1)
    ELSE [position |-> pos, count |-> count]

ParseProgress(toks, eof) ==
    /\ \A pos \in 0..(eof - 1) :
          /\ ConsumesFrom(parse_statement(toks, pos), pos, eof)
          /\ ConsumesFrom(parse_expression(toks, pos), pos, eof)
    /\ phase' = "running" =>
          StatementLoop(toks, 0, 0) = [position |-> eof, count |-> Len(program')]

\* C29: every step of tokenize advances the position by at least one
\* character, or returns Eof with the whole input read, or fails, so that
\* tokenize ends after at most as many tokens as the input has characters;
\* at every token before Eof a successful parse_statement, and a successful
\* parse_expression, consumes at least one token and none after Eof; and a
\* successful parse has consumed every token before Eof, each statement of
\* the program starting where the one before it ended.
C29_LexingAndParsingProgress ==
    [][/\ phase = "tokenizing" => TokenizeProgress
       /\ phase = "tokenized" => ParseProgress(tokens, Len(tokens) - 1)]_vars

\* `x = 10; x += 5; x` has been tokenized into 9 tokens and Eof and parsed
\* into three statements
C29_Witness ==
    /\ phase = "running"
    /\ pc = 1
    /\ lexer.position = Len(lexer.input)
    /\ Len(lexer.input) = 17
    /\ Len(tokens) = 10
    /\ Len(program) = 3
    /\ StatementLoop(tokens, 0, 0) = [position |-> 9, count |-> 3]

Covers(s, a) == s.start <= a.start /\ a.end <= s.end

\* c is the least span covering a and b: it covers both and borrows each of
\* its ends from one of them
MinimalCover(c, a, b) ==
    /\ Covers(c, a)
    /\ Covers(c, b)
    /\ c.start \in {a.start, b.start}
    /\ c.end \in {a.end, b.end}

\* the spans of the tokens, the Eof token left out of the bound by the length
\* of the source: in order, not overlapping, not empty before Eof, combine minimal
TokenSpansInOrder(toks, n) ==
    /\ \A k \in 1..Len(toks) :
          /\ toks[k].span.start <= toks[k].span.end
          /\ toks[k].token_type.type # "Eof" =>
                toks[k].span.start < toks[k].span.end /\ toks[k].span.end <= n
    /\ \A k \in 1..(Len(toks) - 1) : toks[k].span.end <= toks[k + 1].span.start
    /\ \A j, k \in 1..Len(toks) :
          MinimalCover(combine(toks[j].span, toks[k].span), toks[j].span, toks[k].span)

\* the part of the claim that leaves the end of the Eof token aside
C30_TokenSpansBeforeEof ==
    phase = "tokenized" => TokenSpansInOrder(tokens, Len(lexer.input))

\* C30: after a successful tokenize of a source of n characters every token,
\* the final Eof token included, has start <= end and end <= n; every token
\* but Eof has start < end; consecutive tokens do not overlap and follow the
\* source (the end of one is at most the start of the next); and combine(a, b)
\* is the least span covering a and b.
C30_TokenSpans ==
    phase = "tokenized" =>
        /\ TokenSpansInOrder(tokens, Len(lexer.input))
        /\ \A k \in 1..Len(tokens) : tokens[k].span.end <= Len(lexer.input)

====
